---- MODULE Spec2Model ----
(***************************************************************************)
(* Model of the reservation / waiting-list / chat-session core of stoop    *)
(* (src/src/services/firebaseApi.ts, first service object, lines 37-1174), *)
(* running against a Firestore-like document store.                        *)
(*                                                                         *)
(* The store is five collections: ads, reservations, chatSessions, the     *)
(* messages sub-collections and notifications.  Documents created with     *)
(* collection.doc() get the next free index of their collection as id.     *)
(* An absent optional field is NoUser / NoId / "NONE".                      *)
(*                                                                         *)
(* Spec      : every operation runs alone, from its first read to its last *)
(*             write (one client at a time).                               *)
(* ChatSpec  : the same for the chat session manager and the acceptances   *)
(*             that open sessions.                                         *)
(* PageSpec  : the chat page of a participant, whose handlers call the     *)
(*             service while the page's copy of the session is open.       *)
(* RaceSpec  : client processes whose calls interleave at the await points *)
(*             of the source; db.runTransaction is an optimistic           *)
(*             transaction (read, then commit if the documents read are    *)
(*             unchanged, else run the update function again).             *)
(***************************************************************************)
EXTENDS Integers, Sequences, FiniteSets, TLC

VARIABLES ads, reservations, chatSessions, messages, notifications, procs

vars == <<ads, reservations, chatSessions, messages, notifications, procs>>
store == <<ads, reservations, chatSessions, messages, notifications>>

----------------------------------------------------------------------------
(* Bounds of the model *)

MaxReservations == 3
MaxChats == 1
MaxMessages == 2
MaxNotifications == 7

ChatMaxReservations == 2
ChatMaxChats == 2
ChatMaxMessages == 2
ChatMaxNotifications == 3

RaceMaxReservations == 2
RaceMaxChats == 2
RaceMaxNotifications == 5
MaxCalls == 2

PageMaxReservations == 1
PageMaxChats == 1
PageMaxMessages == 2
PageMaxNotifications == 4
ApiMaxReservations == 2
ApiMaxChats == 1
ApiMaxMessages == 1
ApiMaxNotifications == 3
DeleteMaxReservations == 1
DeleteMaxChats == 1
DeleteMaxNotifications == 2
PairMaxReservations == 2
PairMaxChats == 2
PairMaxMessages == 1
PairMaxNotifications == 3

(* Registered users (documents of the users collection) and the ads that   *)
(* createAd has written before the engine is used.                         *)
Users == {1, 2, 3, 4}
AdIds == {"a1", "a2"}
AdOwner == [a \in AdIds |-> 1]
AdIsStreetFind == [a \in AdIds |-> a = "a2"]
Procs == {"p1", "p2"}
(* The users that open chat sessions directly *)
ChatUsers == {1, 2, 3}

NoUser == 0
NoId == 0
NoAd == "none"

(* The identifiers a caller can pass in place of a document id: the ids    *)
(* above stand for well-formed strings, NoId and NoAd for an argument left *)
(* out (undefined), and the ids below for the strings "", "x/y" and "..".  *)
InvalidIds == {-1, -2, -3}
InvalidAdIds == {"", "a/1", ".."}
MissingId == 9
MissingAd == "a9"

DigitChar == <<"1", "2", "3", "4", "5", "6", "7", "8", "9">>

jsUndefined == [isString |-> FALSE, chars |-> <<>>]
jsString(chars) == [isString |-> TRUE, chars |-> chars]

(* The JavaScript value of a user, reservation, chat or notification id *)
idValue(id) ==
  CASE id = NoId -> jsUndefined
    [] id = -1 -> jsString(<<>>)
    [] id = -2 -> jsString(<<"x", "/", "y">>)
    [] id = -3 -> jsString(<<".", ".">>)
    [] OTHER -> jsString(<<"i", DigitChar[id]>>)

(* The JavaScript value of an ad id *)
adIdValue(adId) ==
  CASE adId = NoAd -> jsUndefined
    [] adId = "" -> jsString(<<>>)
    [] adId = "a/1" -> jsString(<<"a", "/", "1">>)
    [] adId = ".." -> jsString(<<".", ".">>)
    [] adId = "a1" -> jsString(<<"a", "1">>)
    [] adId = "a2" -> jsString(<<"a", "2">>)
    [] OTHER -> jsString(<<"a", "9">>)

(* String.prototype.trim *)
RECURSIVE trimStart(_)
trimStart(chars) ==
  IF chars # <<>> /\ Head(chars) = " " THEN trimStart(Tail(chars)) ELSE chars

RECURSIVE trimEnd(_)
trimEnd(chars) ==
  IF chars # <<>> /\ chars[Len(chars)] = " "
  THEN trimEnd(SubSeq(chars, 1, Len(chars) - 1))
  ELSE chars

trim(chars) == trimEnd(trimStart(chars))

(* String.prototype.includes *)
includesChars(chars, sub) ==
  \E i \in 1..(Len(chars) - Len(sub) + 1) : SubSeq(chars, i, i + Len(sub) - 1) = sub

(* An isValidId that accepts every string *)
isValidIdAnyString(v) == v.isString

(* isValidId: the value it returns; with throwOnError the caller fails on  *)
(* FALSE.                                                                  *)
isValidId(v) ==
  /\ v.isString
  /\ trim(v.chars) # <<>>
  /\ ~includesChars(v.chars, <<"/">>)
  /\ ~includesChars(v.chars, <<".", ".">>)

(* The truthiness of an optional string argument *)
truthy(v) == v.isString /\ v.chars # <<>>

----------------------------------------------------------------------------
(* createAd: the document written for a new ad *)
createAd(userId, isStreetFind) ==
  [userId |-> userId,
   isStreetFind |-> isStreetFind,
   isReserved |-> FALSE,
   reservedByUserId |-> NoUser,
   reservationStatus |-> "NONE",
   waitingListUserIds |-> <<>>]

(* The whole store as one value, so that the body of a handler is a        *)
(* function from the store it reads to the store it leaves behind.         *)
Store ==
  [ads |-> ads, reservations |-> reservations, chatSessions |-> chatSessions,
   messages |-> messages, notifications |-> notifications]

SetStore(s) ==
  /\ ads' = s.ads
  /\ reservations' = s.reservations
  /\ chatSessions' = s.chatSessions
  /\ messages' = s.messages
  /\ notifications' = s.notifications

(* The sizes a specification lets the collections grow to *)
Limits ==
  [reservations |-> MaxReservations, chatSessions |-> MaxChats,
   messages |-> MaxMessages, notifications |-> MaxNotifications]

ChatLimits ==
  [reservations |-> ChatMaxReservations, chatSessions |-> ChatMaxChats,
   messages |-> ChatMaxMessages, notifications |-> ChatMaxNotifications]

Fits(L, s) ==
  /\ Len(s.reservations) <= L.reservations
  /\ Len(s.chatSessions) <= L.chatSessions
  /\ Len(s.notifications) <= L.notifications
  /\ \A c \in DOMAIN s.messages : Len(s.messages[c]) <= L.messages

Failed(s, e) == [s |-> s, err |-> e, ret |-> NoId]
Done(s, r) == [s |-> s, err |-> "ok", ret |-> r]

Notification(userId, type, relatedItemId, reservationId) ==
  [userId |-> userId, type |-> type, relatedItemId |-> relatedItemId,
   isRead |-> FALSE, reservationId |-> reservationId]

(* The participant ids kept in the order the caller gave them *)
participantIdsAsGiven(a, b) == <<a, b>>

(* [a, b].sort() on two ids *)
sortedParticipantIds(a, b) == IF a <= b THEN <<a, b>> ELSE <<b, a>>

(* chatQuery comparing the participant ids as given, without sorting them *)
chatQueryAsGiven(s, a, b, adId) ==
  {c \in DOMAIN s.chatSessions :
     /\ s.chatSessions[c].participantIds = <<a, b>>
     /\ s.chatSessions[c].adId = adId}

(* chatQuery without its filter on the ad: the sessions of the two users   *)
(* on any ad                                                               *)
chatQueryAnyAd(s, a, b, adId) ==
  {c \in DOMAIN s.chatSessions :
     s.chatSessions[c].participantIds = sortedParticipantIds(a, b)}

(* where('participantIds','==',sorted).where('adId','==',adId).limit(1):   *)
(* the documents the query can return; which of several matching documents *)
(* comes first depends on their generated ids.                             *)
chatQuery(s, a, b, adId) ==
  {c \in DOMAIN s.chatSessions :
     /\ s.chatSessions[c].participantIds = sortedParticipantIds(a, b)
     /\ s.chatSessions[c].adId = adId}

----------------------------------------------------------------------------
(* A request that marks the ad reserved without naming the requester *)
reservedAdWithoutReserver(adData, requesterId) ==
  [adData EXCEPT !.isReserved = TRUE, !.reservationStatus = "PENDING"]

(* createReservation, lines 416-420: the ad after the request *)
reservedAd(adData, requesterId) ==
  [adData EXCEPT !.isReserved = TRUE,
                 !.reservedByUserId = requesterId,
                 !.reservationStatus = "PENDING"]

(* createReservation, lines 402-438: the writes of the transaction *)
createReservationWrites(s, adId, requesterId) ==
  LET adData == s.ads[adId]
      reservationRef == Len(s.reservations) + 1
  IN [s EXCEPT
        !.reservations = Append(@,
           [adId |-> adId, requesterId |-> requesterId, ownerId |-> adData.userId,
            status |-> "PENDING", chatSessionId |-> NoId]),
        !.ads[adId] = reservedAd(@, requesterId),
        !.notifications = Append(@,
           Notification(adData.userId, "RESERVATION_REQUEST",
                        <<"reservation", reservationRef>>, reservationRef))]

(* createReservation without the check that the ad is not yet reserved *)
createReservationOnReserved(s, adId, requesterId) ==
  IF adId \notin DOMAIN s.ads THEN Failed(s, "AdNotFound")
  ELSE IF requesterId \notin Users THEN Failed(s, "UserNotFound")
  ELSE LET adData == s.ads[adId] IN
    IF adData.isStreetFind THEN Failed(s, "StreetFind")
    ELSE IF adData.userId = requesterId THEN Failed(s, "OwnAd")
    ELSE Done(createReservationWrites(s, adId, requesterId), Len(s.reservations) + 1)

(* createReservation without the check that the ad is no street find *)
createReservationOnStreetFind(s, adId, requesterId) ==
  IF adId \notin DOMAIN s.ads THEN Failed(s, "AdNotFound")
  ELSE IF requesterId \notin Users THEN Failed(s, "UserNotFound")
  ELSE LET adData == s.ads[adId] IN
    IF adData.userId = requesterId THEN Failed(s, "OwnAd")
    ELSE IF adData.isReserved THEN Failed(s, "AlreadyReserved")
    ELSE Done(createReservationWrites(s, adId, requesterId), Len(s.reservations) + 1)

(* createReservation: the body of the transaction *)
createReservation(s, adId, requesterId) ==
  IF adId \notin DOMAIN s.ads THEN Failed(s, "AdNotFound")
  ELSE IF requesterId \notin Users THEN Failed(s, "UserNotFound")
  ELSE LET adData == s.ads[adId] IN
    IF adData.isStreetFind THEN Failed(s, "StreetFind")
    ELSE IF adData.userId = requesterId THEN Failed(s, "OwnAd")
    ELSE IF adData.isReserved THEN Failed(s, "AlreadyReserved")
    ELSE Done(createReservationWrites(s, adId, requesterId), Len(s.reservations) + 1)

(* Array.includes on the waiting list *)
includes(list, u) == \E i \in DOMAIN list : list[i] = u

(* An arrayUnion that puts the new element at the head of the array *)
arrayUnionAtHead(list, u) == IF includes(list, u) THEN list ELSE <<u>> \o list

(* FieldValue.arrayUnion(userId) *)
arrayUnion(list, u) == IF includes(list, u) THEN list ELSE Append(list, u)

(* joinWaitingList without the check that the caller is not the owner *)
joinWaitingListByOwner(s, adId, userId) ==
  IF adId \notin DOMAIN s.ads THEN Failed(s, "AdNotFound")
  ELSE IF userId \notin Users THEN Failed(s, "UserNotFound")
  ELSE LET adData == s.ads[adId] IN
    IF adData.isStreetFind THEN Failed(s, "StreetFind")
    ELSE IF adData.reservedByUserId = userId THEN Failed(s, "AlreadyRequested")
    ELSE IF includes(adData.waitingListUserIds, userId) THEN Failed(s, "AlreadyWaiting")
    ELSE IF adData.reservationStatus = "COMPLETED" THEN Failed(s, "Completed")
    ELSE IF ~adData.isReserved THEN Failed(s, "NotReserved")
    ELSE Done(
      [s EXCEPT
         !.ads[adId].waitingListUserIds = arrayUnion(@, userId),
         !.notifications = @ \o
            <<Notification(userId, "WAITING_LIST_JOINED", <<"ad", adId>>, NoId),
              Notification(adData.userId, "OWNER_WAITING_LIST_UPDATE", <<"ad", adId>>, NoId)>>],
      NoId)

(* joinWaitingList without the check that the ad is reserved *)
joinWaitingListOnOpenAd(s, adId, userId) ==
  IF adId \notin DOMAIN s.ads THEN Failed(s, "AdNotFound")
  ELSE IF userId \notin Users THEN Failed(s, "UserNotFound")
  ELSE LET adData == s.ads[adId] IN
    IF adData.isStreetFind THEN Failed(s, "StreetFind")
    ELSE IF adData.userId = userId THEN Failed(s, "OwnAd")
    ELSE IF adData.reservedByUserId = userId THEN Failed(s, "AlreadyRequested")
    ELSE IF includes(adData.waitingListUserIds, userId) THEN Failed(s, "AlreadyWaiting")
    ELSE IF adData.reservationStatus = "COMPLETED" THEN Failed(s, "Completed")
    ELSE Done(
      [s EXCEPT
         !.ads[adId].waitingListUserIds = arrayUnion(@, userId),
         !.notifications = @ \o
            <<Notification(userId, "WAITING_LIST_JOINED", <<"ad", adId>>, NoId),
              Notification(adData.userId, "OWNER_WAITING_LIST_UPDATE", <<"ad", adId>>, NoId)>>],
      NoId)

(* joinWaitingList: the body of the transaction *)
joinWaitingList(s, adId, userId) ==
  IF adId \notin DOMAIN s.ads THEN Failed(s, "AdNotFound")
  ELSE IF userId \notin Users THEN Failed(s, "UserNotFound")
  ELSE LET adData == s.ads[adId] IN
    IF adData.isStreetFind THEN Failed(s, "StreetFind")
    ELSE IF adData.userId = userId THEN Failed(s, "OwnAd")
    ELSE IF adData.reservedByUserId = userId THEN Failed(s, "AlreadyRequested")
    ELSE IF includes(adData.waitingListUserIds, userId) THEN Failed(s, "AlreadyWaiting")
    ELSE IF adData.reservationStatus = "COMPLETED" THEN Failed(s, "Completed")
    ELSE IF ~adData.isReserved THEN Failed(s, "NotReserved")
    ELSE Done(
      [s EXCEPT
         !.ads[adId].waitingListUserIds = arrayUnion(@, userId),
         !.notifications = @ \o
            <<Notification(userId, "WAITING_LIST_JOINED", <<"ad", adId>>, NoId),
              Notification(adData.userId, "OWNER_WAITING_LIST_UPDATE", <<"ad", adId>>, NoId)>>],
      NoId)

(* updateReservationStatus, lines 509-527: the chat lookup made before the *)
(* transaction; NoId when the status is not ACCEPTED, the reservation is   *)
(* missing or no session matches.                                          *)
existingChatDocIds(s, reservationId, newStatus) ==
  IF newStatus = "ACCEPTED" /\ reservationId \in DOMAIN s.reservations
  THEN LET r == s.reservations[reservationId]
           found == chatQuery(s, r.ownerId, r.requesterId, r.adId)
       IN IF found = {} THEN {NoId} ELSE found
  ELSE {NoId}

(* An acceptance that leaves the ad document as it was *)
acceptedAdNotWritten(adData, requesterId) == adData

(* updateReservationStatus, lines 567-575 and 655: the ad after an         *)
(* acceptance                                                              *)
acceptedAd(adData, requesterId) ==
  [adData EXCEPT !.reservationStatus = "ACCEPTED",
                 !.isReserved = TRUE,
                 !.reservedByUserId = requesterId]

(* A decline that clears the reserver and the status but leaves the ad     *)
(* marked reserved                                                         *)
vacatedAdStillReserved(adData) ==
  [adData EXCEPT !.reservedByUserId = NoUser,
                 !.reservationStatus = "NONE",
                 !.waitingListUserIds = <<>>]

(* A decline that leaves the ad document as it was *)
vacatedAdNotWritten(adData) == adData

(* updateReservationStatus, lines 641-646 and 655: the ad after a decline  *)
(* with nobody to promote; FieldValue.delete() removes the field.          *)
vacatedAd(adData) ==
  [adData EXCEPT !.isReserved = FALSE,
                 !.reservedByUserId = NoUser,
                 !.reservationStatus = "NONE",
                 !.waitingListUserIds = <<>>]

(* An acceptance that links the session found but leaves it closed *)
reusedChatLeftClosed(chat, reservationId) ==
  [chat EXCEPT !.reservationWasAccepted = TRUE,
               !.reservationId = reservationId]

(* updateReservationStatus, lines 581-586: the update of the session found *)
reusedChat(chat, reservationId) ==
  [chat EXCEPT !.isClosed = FALSE,
               !.closedByUserId = NoUser,
               !.reservationWasAccepted = TRUE,
               !.reservationId = reservationId]

(* updateReservationStatus, lines 573-607: the writes of an acceptance *)
acceptWrites(s, reservationId, existingChatDocId) ==
  LET reservationData == s.reservations[reservationId]
      chatSessionId == IF existingChatDocId # NoId THEN existingChatDocId
                       ELSE Len(s.chatSessions) + 1
  IN [s EXCEPT
        !.ads[reservationData.adId] = acceptedAd(@, reservationData.requesterId),
        !.chatSessions =
            IF existingChatDocId # NoId
            THEN [@ EXCEPT ![existingChatDocId] = reusedChat(@, reservationId)]
            ELSE Append(@,
                   [participantIds |-> sortedParticipantIds(reservationData.ownerId,
                                                            reservationData.requesterId),
                    adId |-> reservationData.adId,
                    isClosed |-> FALSE,
                    closedByUserId |-> NoUser,
                    reservationWasAccepted |-> TRUE,
                    reservationId |-> reservationId,
                    lastMessageText |-> "NONE"]),
        !.messages = IF existingChatDocId # NoId THEN @ ELSE Append(@, <<>>),
        !.reservations[reservationId].chatSessionId = chatSessionId,
        !.notifications = Append(@,
            Notification(reservationData.requesterId, "RESERVATION_ACCEPTED",
                         <<"chat", chatSessionId>>, reservationId))]

(* A promotion that leaves the promoted user on the waiting list *)
remainingWaitingListWhole(adWaitingList) == adWaitingList

(* updateReservationStatus, line 612: adWaitingList.slice(1) *)
remainingWaitingList(adWaitingList) == Tail(adWaitingList)

(* declineWrites promoting the user who joined last *)
declineWritesLast(s, reservationId) ==
  LET reservationData == s.reservations[reservationId]
      adData == s.ads[reservationData.adId]
      adWaitingList == adData.waitingListUserIds
      promote == Len(adWaitingList) > 0 /\ adWaitingList[Len(adWaitingList)] \in Users
      nextUserId == adWaitingList[Len(adWaitingList)]
      newReservationRef == Len(s.reservations) + 1
      declined == Notification(reservationData.requesterId, "RESERVATION_DECLINED",
                               <<"ad", reservationData.adId>>, reservationId)
  IN IF promote
     THEN [s EXCEPT
             !.reservations = Append(@,
                [adId |-> reservationData.adId, requesterId |-> nextUserId,
                 ownerId |-> adData.userId, status |-> "PENDING",
                 chatSessionId |-> NoId]),
             !.ads[reservationData.adId] =
                [@ EXCEPT !.isReserved = TRUE,
                          !.reservedByUserId = nextUserId,
                          !.reservationStatus = "PENDING",
                          !.waitingListUserIds =
                             SubSeq(adWaitingList, 1, Len(adWaitingList) - 1)],
             !.notifications = @ \o
                <<Notification(adData.userId, "PROMOTED_FROM_WAITING_LIST",
                               <<"reservation", newReservationRef>>, newReservationRef),
                  declined>>]
     ELSE [s EXCEPT
             !.ads[reservationData.adId] = vacatedAd(@),
             !.notifications = Append(@, declined)]

(* updateReservationStatus, lines 609-653: the writes of a decline; the    *)
(* head of the waiting list is promoted when its user document exists.     *)
declineWrites(s, reservationId) ==
  LET reservationData == s.reservations[reservationId]
      adData == s.ads[reservationData.adId]
      adWaitingList == adData.waitingListUserIds
      promote == Len(adWaitingList) > 0 /\ adWaitingList[1] \in Users
      nextUserId == adWaitingList[1]
      newReservationRef == Len(s.reservations) + 1
      declined == Notification(reservationData.requesterId, "RESERVATION_DECLINED",
                               <<"ad", reservationData.adId>>, reservationId)
  IN IF promote
     THEN [s EXCEPT
             !.reservations = Append(@,
                [adId |-> reservationData.adId, requesterId |-> nextUserId,
                 ownerId |-> adData.userId, status |-> "PENDING",
                 chatSessionId |-> NoId]),
             !.ads[reservationData.adId] =
                [@ EXCEPT !.isReserved = TRUE,
                          !.reservedByUserId = nextUserId,
                          !.reservationStatus = "PENDING",
                          !.waitingListUserIds = remainingWaitingList(adWaitingList)],
             !.notifications = @ \o
                <<Notification(adData.userId, "PROMOTED_FROM_WAITING_LIST",
                               <<"reservation", newReservationRef>>, newReservationRef),
                  declined>>]
     ELSE [s EXCEPT
             !.ads[reservationData.adId] = vacatedAd(@),
             !.notifications = Append(@, declined)]

(* An update that never acknowledges the notification it was given *)
acknowledgesNever(originalNotificationId) == FALSE

(* updateReservationStatus, line 562: the notification is acknowledged     *)
(* when the argument is given and isValidId, called with throwOnError      *)
(* false, accepts it.                                                      *)
acknowledges(originalNotificationId) ==
  /\ truthy(idValue(originalNotificationId))
  /\ isValidId(idValue(originalNotificationId))

(* updateReservationStatus, lines 560-671: the writes of the transaction *)
updateReservationStatusWrites(s, reservationId, newStatus, originalNotificationId, existingChatDocId) ==
  LET s1 == [s EXCEPT !.reservations[reservationId].status = newStatus]
      s2 == IF acknowledges(originalNotificationId)
            THEN [s1 EXCEPT !.notifications[originalNotificationId].isRead = TRUE]
            ELSE s1
  IN IF newStatus = "ACCEPTED"
     THEN acceptWrites(s2, reservationId, existingChatDocId)
     ELSE declineWrites(s2, reservationId)

(* updateReservationStatus without the check that the caller is the owner *)
updateReservationStatusByAnyone(s, reservationId, newStatus, currentUserId, originalNotificationId, existingChatDocId) ==
  IF reservationId \notin DOMAIN s.reservations THEN Failed(s, "ReservationNotFound")
  ELSE IF s.reservations[reservationId].adId \notin DOMAIN s.ads THEN Failed(s, "AdNotFound")
  ELSE IF acknowledges(originalNotificationId) /\ originalNotificationId \notin DOMAIN s.notifications
       THEN Failed(s, "NotificationNotFound")
  ELSE Done(updateReservationStatusWrites(s, reservationId, newStatus,
                                          originalNotificationId, existingChatDocId),
            reservationId)

(* updateReservationStatus, lines 529-672: the body of the transaction,    *)
(* given the chat id found before it.  newStatus is ACCEPTED or DECLINED.  *)
updateReservationStatus(s, reservationId, newStatus, currentUserId, originalNotificationId, existingChatDocId) ==
  IF reservationId \notin DOMAIN s.reservations THEN Failed(s, "ReservationNotFound")
  ELSE IF s.reservations[reservationId].adId \notin DOMAIN s.ads THEN Failed(s, "AdNotFound")
  ELSE IF s.reservations[reservationId].ownerId # currentUserId THEN Failed(s, "Unauthorized")
  ELSE IF acknowledges(originalNotificationId) /\ originalNotificationId \notin DOMAIN s.notifications
       THEN Failed(s, "NotificationNotFound")
  ELSE Done(updateReservationStatusWrites(s, reservationId, newStatus,
                                          originalNotificationId, existingChatDocId),
            reservationId)

(* claimStreetFind without the check that the ad is not yet picked up *)
claimStreetFindNoCheck(s, adId, pickerUserId, adOwnerId) ==
  IF adId \notin DOMAIN s.ads THEN Failed(s, "AdNotFound")
  ELSE IF pickerUserId \notin Users THEN Failed(s, "UserNotFound")
  ELSE LET adData == s.ads[adId] IN
    IF ~adData.isStreetFind THEN Failed(s, "NotStreetFind")
    ELSE Done(
      [s EXCEPT
         !.ads[adId] = [@ EXCEPT !.isReserved = TRUE,
                                 !.reservedByUserId = pickerUserId,
                                 !.reservationStatus = "COMPLETED"],
         !.notifications = Append(@,
            Notification(adOwnerId, "STREET_FIND_PICKED_UP", <<"ad", adId>>, NoId))],
      NoId)

(* claimStreetFind: the body of the transaction *)
claimStreetFind(s, adId, pickerUserId, adOwnerId) ==
  IF adId \notin DOMAIN s.ads THEN Failed(s, "AdNotFound")
  ELSE IF pickerUserId \notin Users THEN Failed(s, "UserNotFound")
  ELSE LET adData == s.ads[adId] IN
    IF ~adData.isStreetFind THEN Failed(s, "NotStreetFind")
    ELSE IF adData.reservationStatus = "COMPLETED" THEN Failed(s, "AlreadyPickedUp")
    ELSE Done(
      [s EXCEPT
         !.ads[adId] = [@ EXCEPT !.isReserved = TRUE,
                                 !.reservedByUserId = pickerUserId,
                                 !.reservationStatus = "COMPLETED"],
         !.notifications = Append(@,
            Notification(adOwnerId, "STREET_FIND_PICKED_UP", <<"ad", adId>>, NoId))],
      NoId)

----------------------------------------------------------------------------
(* createChatSession, lines 765-771: the lookup *)
existingSessionDocs(s, a, b, adId) ==
  LET found == chatQuery(s, a, b, adId)
  IN IF found = {} THEN {NoId} ELSE found

(* createChatSession, lines 773-805: what is written after the lookup:     *)
(* existingSessionDoc is the id the lookup returned and existingSessionData *)
(* the document as the lookup saw it.                                       *)
createChatSession(s, a, b, adId, reservationId, reservationWasAccepted, existingSessionDoc, existingSessionData) ==
  IF existingSessionDoc # NoId
  THEN LET setAccepted == reservationWasAccepted /\ ~existingSessionData.reservationWasAccepted
           reopen == existingSessionData.isClosed
       IN Done(
         [s EXCEPT !.chatSessions[existingSessionDoc] =
            [@ EXCEPT !.reservationWasAccepted = IF setAccepted THEN TRUE ELSE @,
                      !.isClosed = IF reopen THEN FALSE ELSE @,
                      !.closedByUserId = IF reopen THEN NoUser ELSE @]],
         existingSessionDoc)
  ELSE Done(
         [s EXCEPT
            !.chatSessions = Append(@,
               [participantIds |-> sortedParticipantIds(a, b),
                adId |-> adId,
                isClosed |-> FALSE,
                closedByUserId |-> NoUser,
                reservationWasAccepted |-> reservationWasAccepted,
                reservationId |-> reservationId,
                lastMessageText |-> "NONE"]),
            !.messages = Append(@, <<>>)],
         Len(s.chatSessions) + 1)

(* A closeChatSession that also marks the session's ad COMPLETED, as the   *)
(* completion of an exchange does.                                         *)
closeChatSessionMarkingAd(s, chatId, userIdClosing) ==
  IF chatId \notin DOMAIN s.chatSessions THEN Failed(s, "ChatNotFound")
  ELSE IF ~includes(s.chatSessions[chatId].participantIds, userIdClosing)
       THEN Failed(s, "Unauthorized")
  ELSE Done(
    [s EXCEPT
       !.ads[s.chatSessions[chatId].adId].reservationStatus = "COMPLETED",
       !.messages[chatId] = Append(@, [senderId |-> "system", text |-> "closed",
                                       isSystemMessage |-> TRUE]),
       !.chatSessions[chatId] = [@ EXCEPT !.isClosed = TRUE,
                                          !.closedByUserId = userIdClosing,
                                          !.lastMessageText = "closed"]],
    NoId)

(* A closeChatSession that also declines the reservations of the session's *)
(* ad                                                                      *)
closeChatSessionDecliningReservations(s, chatId, userIdClosing) ==
  IF chatId \notin DOMAIN s.chatSessions THEN Failed(s, "ChatNotFound")
  ELSE IF ~includes(s.chatSessions[chatId].participantIds, userIdClosing)
       THEN Failed(s, "Unauthorized")
  ELSE Done(
    [s EXCEPT
       !.reservations =
          [r \in DOMAIN @ |->
             IF @[r].adId = s.chatSessions[chatId].adId
             THEN [@[r] EXCEPT !.status = "DECLINED"] ELSE @[r]],
       !.messages[chatId] = Append(@, [senderId |-> "system", text |-> "closed",
                                       isSystemMessage |-> TRUE]),
       !.chatSessions[chatId] = [@ EXCEPT !.isClosed = TRUE,
                                          !.closedByUserId = userIdClosing,
                                          !.lastMessageText = "closed"]],
    NoId)

(* closeChatSession: the body of the transaction *)
closeChatSession(s, chatId, userIdClosing) ==
  IF chatId \notin DOMAIN s.chatSessions THEN Failed(s, "ChatNotFound")
  ELSE IF ~includes(s.chatSessions[chatId].participantIds, userIdClosing)
       THEN Failed(s, "Unauthorized")
  ELSE Done(
    [s EXCEPT
       !.messages[chatId] = Append(@, [senderId |-> "system", text |-> "closed",
                                       isSystemMessage |-> TRUE]),
       !.chatSessions[chatId] = [@ EXCEPT !.isClosed = TRUE,
                                          !.closedByUserId = userIdClosing,
                                          !.lastMessageText = "closed"]],
    NoId)

(* chatData.participantIds.find(id => id !== userIdCompleting) *)
otherParticipantId(participantIds, userId) ==
  IF participantIds[1] # userId THEN participantIds[1]
  ELSE IF participantIds[2] # userId THEN participantIds[2]
  ELSE NoUser

(* completeExchangeAndCloseChat without the check that the caller is one   *)
(* of the participants                                                    *)
completeExchangeByAnyone(s, chatId, userIdCompleting) ==
  IF chatId \notin DOMAIN s.chatSessions THEN Failed(s, "ChatNotFound")
  ELSE LET chatData == s.chatSessions[chatId]
           other == otherParticipantId(chatData.participantIds, userIdCompleting)
       IN
    IF chatData.adId \notin DOMAIN s.ads THEN Failed(s, "AdNotFound")
    ELSE Done(
      [s EXCEPT
         !.ads[chatData.adId].reservationStatus = "COMPLETED",
         !.messages[chatId] = Append(@, [senderId |-> "system", text |-> "completed",
                                         isSystemMessage |-> TRUE]),
         !.chatSessions[chatId] = [@ EXCEPT !.isClosed = TRUE,
                                            !.closedByUserId = userIdCompleting,
                                            !.lastMessageText = "completed"],
         !.notifications =
            IF other # NoUser /\ userIdCompleting \in Users
            THEN Append(@, Notification(other, "EXCHANGE_COMPLETED",
                                        <<"ad", chatData.adId>>, NoId))
            ELSE @],
      NoId)

(* completeExchangeAndCloseChat: the body of the transaction *)
completeExchangeAndCloseChat(s, chatId, userIdCompleting) ==
  IF chatId \notin DOMAIN s.chatSessions THEN Failed(s, "ChatNotFound")
  ELSE LET chatData == s.chatSessions[chatId]
           other == otherParticipantId(chatData.participantIds, userIdCompleting)
       IN
    IF ~includes(chatData.participantIds, userIdCompleting) THEN Failed(s, "Unauthorized")
    ELSE IF chatData.adId \notin DOMAIN s.ads THEN Failed(s, "AdNotFound")
    ELSE Done(
      [s EXCEPT
         !.ads[chatData.adId].reservationStatus = "COMPLETED",
         !.messages[chatId] = Append(@, [senderId |-> "system", text |-> "completed",
                                         isSystemMessage |-> TRUE]),
         !.chatSessions[chatId] = [@ EXCEPT !.isClosed = TRUE,
                                            !.closedByUserId = userIdCompleting,
                                            !.lastMessageText = "completed"],
         !.notifications =
            IF other # NoUser /\ userIdCompleting \in Users
            THEN Append(@, Notification(other, "EXCHANGE_COMPLETED",
                                        <<"ad", chatData.adId>>, NoId))
            ELSE @],
      NoId)

(* sendChatMessage: message, session update and notification, run alone *)
sendChatMessage(s, chatId, senderId) ==
  IF chatId \notin DOMAIN s.chatSessions THEN Failed(s, "ChatNotFound")
  ELSE LET chatSession == s.chatSessions[chatId]
           other == otherParticipantId(chatSession.participantIds, senderId)
           sender == includes(chatSession.participantIds, senderId)
       IN Done(
      [s EXCEPT
         !.messages[chatId] = Append(@, [senderId |-> senderId, text |-> "text",
                                         isSystemMessage |-> FALSE]),
         !.chatSessions[chatId] = [@ EXCEPT !.lastMessageText = "text",
                                            !.isClosed = FALSE,
                                            !.closedByUserId = NoUser],
         !.notifications =
            IF other # NoUser /\ sender
            THEN Append(@, Notification(other, "NEW_MESSAGE", <<"chat", chatId>>, NoId))
            ELSE @],
      NoId)

(* A markNotificationAsRead that flips the flag instead of setting it *)
markNotificationAsReadToggling(s, notificationId, userId) ==
  IF notificationId \in DOMAIN s.notifications
     /\ s.notifications[notificationId].userId = userId
  THEN Done([s EXCEPT !.notifications[notificationId].isRead = ~@], NoId)
  ELSE Done(s, NoId)

(* markNotificationAsRead *)
markNotificationAsRead(s, notificationId, userId) ==
  IF notificationId \in DOMAIN s.notifications
     /\ s.notifications[notificationId].userId = userId
  THEN Done([s EXCEPT !.notifications[notificationId].isRead = TRUE], NoId)
  ELSE Done(s, NoId)

----------------------------------------------------------------------------
(* The state after one ad has been posted, a negotiated one or a street   *)
(* find: no reservation, session or notification yet, no call in progress. *)
NoAdDoc == createAd(NoUser, FALSE)
NoReservationDoc ==
  [adId |-> NoAd, requesterId |-> NoUser, ownerId |-> NoUser, status |-> "NONE",
   chatSessionId |-> NoId]
NoChatDoc ==
  [participantIds |-> <<NoUser, NoUser>>, adId |-> NoAd, isClosed |-> FALSE,
   closedByUserId |-> NoUser, reservationWasAccepted |-> FALSE,
   reservationId |-> NoId, lastMessageText |-> "NONE"]
NoSnap == [ad |-> NoAdDoc, reservation |-> NoReservationDoc, chat |-> NoChatDoc]

(* A client between two calls.  pc is the await point a call is at, found  *)
(* the chat id its lookup returned, snap the documents its transaction     *)
(* attempt has read, attempts the runs of the update function, calls the   *)
(* calls the client has made, listed the ads its last listing returned.    *)
IdleProc ==
  [pc |-> "idle", op |-> "none", adId |-> NoAd, userId |-> NoUser, otherId |-> NoUser,
   reservationId |-> NoId, newStatus |-> "NONE", notificationId |-> NoId,
   accepted |-> FALSE, found |-> NoId, snap |-> NoSnap, attempts |-> 0,
   result |-> "none", calls |-> 0, listed |-> {}]

EmptyStore ==
  /\ reservations = <<>>
  /\ chatSessions = <<>>
  /\ messages = <<>>
  /\ notifications = <<>>
  /\ procs = [p \in Procs |-> IdleProc]

Init ==
  /\ \E a0 \in AdIds : ads = [a \in {a0} |-> createAd(AdOwner[a], AdIsStreetFind[a])]
  /\ EmptyStore

(* A call that runs alone: it commits what its body writes; a call whose   *)
(* body throws leaves the store as it is.                                  *)
Commit(L, r) ==
  /\ r.err = "ok"
  /\ Fits(L, r.s)
  /\ SetStore(r.s)
  /\ UNCHANGED procs

StatusArgs == {"ACCEPTED", "DECLINED"}

CreateReservation(L) ==
  \E a \in DOMAIN ads, u \in Users : Commit(L, createReservation(Store, a, u))

JoinWaitingList(L) ==
  \E a \in DOMAIN ads, u \in Users : Commit(L, joinWaitingList(Store, a, u))

UpdateReservationStatus(L) ==
  \E r \in DOMAIN reservations, st \in StatusArgs, u \in Users :
    \E c \in existingChatDocIds(Store, r, st) :
      Commit(L, updateReservationStatus(Store, r, st, u, NoId, c))

ClaimStreetFind(L) ==
  \E a \in DOMAIN ads, u \in Users, o \in Users :
    Commit(L, claimStreetFind(Store, a, u, o))

CreateChatSession(L) ==
  \E a \in ChatUsers, b \in ChatUsers, ad \in DOMAIN ads, r \in {NoId}, acc \in BOOLEAN :
    /\ a # b
    /\ \E c \in existingSessionDocs(Store, a, b, ad) :
         Commit(L, createChatSession(Store, a, b, ad, r, acc, c,
                                     IF c = NoId THEN <<>> ELSE chatSessions[c]))

SendChatMessage(L) ==
  \E c \in DOMAIN chatSessions, u \in Users : Commit(L, sendChatMessage(Store, c, u))

CloseChatSession(L) ==
  \E c \in DOMAIN chatSessions, u \in Users : Commit(L, closeChatSession(Store, c, u))

CompleteExchangeAndCloseChat(L) ==
  \E c \in DOMAIN chatSessions, u \in Users :
    Commit(L, completeExchangeAndCloseChat(Store, c, u))

MarkNotificationAsRead(L) ==
  \E n \in DOMAIN notifications, u \in Users :
    Commit(L, markNotificationAsRead(Store, n, u))

(* The reservation engine, one call at a time *)
Next ==
  \/ CreateReservation(Limits)
  \/ JoinWaitingList(Limits)
  \/ UpdateReservationStatus(Limits)
  \/ ClaimStreetFind(Limits)
  \/ CloseChatSession(Limits)
  \/ CompleteExchangeAndCloseChat(Limits)

Spec == Init /\ [][Next]_vars

(* The chat session manager with the acceptances that open sessions, one   *)
(* call at a time, on a negotiated ad.                                     *)
ChatInit ==
  /\ ads = [a \in {"a1"} |-> createAd(AdOwner[a], AdIsStreetFind[a])]
  /\ EmptyStore

ChatNext ==
  \/ CreateReservation(ChatLimits)
  \/ UpdateReservationStatus(ChatLimits)
  \/ CreateChatSession(ChatLimits)
  \/ CloseChatSession(ChatLimits)

ChatSpec == ChatInit /\ [][ChatNext]_vars

----------------------------------------------------------------------------
(* The chat page of a participant (PageSpec): the page holds the session   *)
(* as its listener last delivered it, and its handlers call the service    *)
(* only while that copy is open.                                           *)

PageLimits ==
  [reservations |-> PageMaxReservations, chatSessions |-> PageMaxChats,
   messages |-> PageMaxMessages, notifications |-> PageMaxNotifications]

(* getChatSessionStreamedById: the listener delivers the session to the    *)
(* page of one of its participants (setSessionDetails).                    *)
SessionSnapshot(p) ==
  \E c \in DOMAIN chatSessions, u \in Users :
    /\ includes(chatSessions[c].participantIds, u)
    /\ procs' = [procs EXCEPT ![p].userId = u, ![p].found = c,
                              ![p].snap.chat = chatSessions[c]]
    /\ UNCHANGED store

(* A handler of the page calls operation op, whose run alone gives r *)
PageCall(p, op, r) ==
  /\ procs[p].calls < MaxCalls
  /\ r.err = "ok"
  /\ Fits(PageLimits, r.s)
  /\ SetStore(r.s)
  /\ procs' = [procs EXCEPT ![p].op = op, ![p].calls = @ + 1, ![p].result = "ok"]

(* ChatSystemPage.handleSendMessage *)
HandleSendMessage(p) ==
  /\ procs[p].found # NoId
  /\ ~procs[p].snap.chat.isClosed
  /\ PageCall(p, "sendChatMessage", sendChatMessage(Store, procs[p].found, procs[p].userId))

(* ChatSystemPage.handleCompleteExchange; its button shows on a session    *)
(* whose reservation was accepted.                                         *)
HandleCompleteExchange(p) ==
  /\ procs[p].found # NoId
  /\ ~procs[p].snap.chat.isClosed
  /\ procs[p].snap.chat.reservationWasAccepted
  /\ PageCall(p, "completeExchangeAndCloseChat",
              completeExchangeAndCloseChat(Store, procs[p].found, procs[p].userId))

(* ChatSystemPage.handleCloseChat *)
HandleCloseChat(p) ==
  /\ procs[p].found # NoId
  /\ ~procs[p].snap.chat.isClosed
  /\ PageCall(p, "closeChatSession", closeChatSession(Store, procs[p].found, procs[p].userId))

PageNext ==
  \/ CreateReservation(PageLimits)
  \/ UpdateReservationStatus(PageLimits)
  \/ \E p \in Procs :
       \/ SessionSnapshot(p)
       \/ HandleSendMessage(p)
       \/ HandleCompleteExchange(p)
       \/ HandleCloseChat(p)

PageSpec == ChatInit /\ [][PageNext]_vars

----------------------------------------------------------------------------
(* Clients whose calls interleave (RaceSpec) *)

RaceLimits ==
  [reservations |-> RaceMaxReservations, chatSessions |-> RaceMaxChats,
   messages |-> 0, notifications |-> RaceMaxNotifications]

TxOps == {"createReservation", "joinWaitingList", "updateReservationStatus",
          "claimStreetFind"}

(* The update function a call hands to db.runTransaction *)
txBody(pr, s) ==
  CASE pr.op = "createReservation" -> createReservation(s, pr.adId, pr.userId)
    [] pr.op = "joinWaitingList" -> joinWaitingList(s, pr.adId, pr.userId)
    [] pr.op = "updateReservationStatus" ->
         updateReservationStatus(s, pr.reservationId, pr.newStatus, pr.userId,
                                 pr.notificationId, pr.found)
    [] pr.op = "claimStreetFind" -> claimStreetFind(s, pr.adId, pr.userId, pr.otherId)

(* transaction.get(adRef): the ad document, or a snapshot that does not   *)
(* exist                                                                   *)
adDoc(s, adId) == IF adId \in DOMAIN s.ads THEN s.ads[adId] ELSE NoAdDoc

(* The documents the update function reads with transaction.get; the user  *)
(* documents it also reads never change.                                   *)
readSet(pr, s) ==
  IF pr.op = "updateReservationStatus"
  THEN [ad |-> adDoc(s, s.reservations[pr.reservationId].adId),
        reservation |-> s.reservations[pr.reservationId],
        chat |-> IF pr.found # NoId THEN s.chatSessions[pr.found] ELSE NoChatDoc]
  ELSE [ad |-> adDoc(s, pr.adId), reservation |-> NoReservationDoc, chat |-> NoChatDoc]

(* The store as the attempt saw it: the documents it read are as read *)
withSnap(pr, s) ==
  IF pr.op = "updateReservationStatus"
  THEN LET s1 == [s EXCEPT !.reservations[pr.reservationId] = pr.snap.reservation,
                           !.ads[pr.snap.reservation.adId] = pr.snap.ad]
       IN IF pr.found # NoId
          THEN [s1 EXCEPT !.chatSessions[pr.found] = pr.snap.chat]
          ELSE s1
  ELSE [s EXCEPT !.ads[pr.adId] = pr.snap.ad]

(* The commit of a transaction without the check that the documents it     *)
(* read are unchanged                                                      *)
readSetUnchangedAlways(pr, s) == TRUE

(* db.runTransaction commits only if no document read has been written     *)
(* since it was read.                                                      *)
readSetUnchanged(pr, s) == readSet(pr, s) = pr.snap

Call(p, op, adId, userId, otherId, reservationId, newStatus, notificationId, pc) ==
  /\ procs[p].pc \in {"idle", "done"}
  /\ procs[p].calls < MaxCalls
  /\ procs' = [procs EXCEPT ![p] =
       [pc |-> pc, op |-> op, adId |-> adId, userId |-> userId, otherId |-> otherId,
        reservationId |-> reservationId, newStatus |-> newStatus,
        notificationId |-> notificationId, accepted |-> op = "createChatSession",
        found |-> NoId, snap |-> NoSnap, attempts |-> 0,
        result |-> "none", calls |-> procs[p].calls + 1, listed |-> {}]]
  /\ UNCHANGED store

RaceUsers == {1, 2, 3}

(* NotificationsPage, line 214: the notifications that show the accept and *)
(* decline buttons of reservation r; the page may still show a button      *)
(* after the notification was read elsewhere.                              *)
requestNotifications(s, r) ==
  {n \in DOMAIN s.notifications :
     /\ s.notifications[n].reservationId = r
     /\ s.notifications[n].type = "RESERVATION_REQUEST"}

(* A client calls an operation: the ids are valid, nothing is read yet *)
BeginCreateReservation(p) ==
  \E a \in DOMAIN ads, u \in RaceUsers :
    Call(p, "createReservation", a, u, NoUser, NoId, "NONE", NoId, "read")

BeginJoinWaitingList(p) ==
  \E a \in DOMAIN ads, u \in RaceUsers :
    Call(p, "joinWaitingList", a, u, NoUser, NoId, "NONE", NoId, "read")

BeginUpdateReservationStatus(p) ==
  \E r \in DOMAIN reservations, st \in StatusArgs, u \in {1, 2} :
    \E n \in {NoId} \cup requestNotifications(Store, r) :
    Call(p, "updateReservationStatus", reservations[r].adId, u, NoUser, r, st, n,
         IF st = "ACCEPTED" THEN "query" ELSE "read")

BeginClaimStreetFind(p) ==
  \E a \in DOMAIN ads, u \in RaceUsers :
    Call(p, "claimStreetFind", a, u, ads[a].userId, NoId, "NONE", NoId, "read")

BeginCreateChatSession(p) ==
  \E a \in RaceUsers, b \in RaceUsers, ad \in DOMAIN ads :
    /\ a # b
    /\ Call(p, "createChatSession", ad, a, b, NoId, "NONE", NoId, "query")

(* The chat lookup of updateReservationStatus (before its transaction) and *)
(* of createChatSession                                                    *)
ChatLookup(p) ==
  LET pr == procs[p] IN
  /\ pr.pc = "query"
  /\ \E c \in (IF pr.op = "updateReservationStatus"
               THEN existingChatDocIds(Store, pr.reservationId, pr.newStatus)
               ELSE existingSessionDocs(Store, pr.userId, pr.otherId, pr.adId)) :
       procs' = [procs EXCEPT ![p].found = c,
                              ![p].snap.chat = IF c # NoId /\ pr.op = "createChatSession"
                                               THEN chatSessions[c] ELSE NoChatDoc,
                              ![p].pc = IF pr.op = "updateReservationStatus"
                                        THEN "read" ELSE "write"]
  /\ UNCHANGED store

(* One run of the update function: it reads its documents and throws, or   *)
(* has its writes ready to commit.                                         *)
TxRead(p) ==
  LET pr == procs[p]
      r == txBody(pr, Store)
  IN
  /\ pr.pc = "read"
  /\ pr.op \in TxOps
  /\ procs' = [procs EXCEPT ![p] =
       IF r.err = "ok"
       THEN [pr EXCEPT !.pc = "commit", !.snap = readSet(pr, Store),
                       !.attempts = @ + 1]
       ELSE [pr EXCEPT !.pc = "done", !.result = r.err, !.snap = NoSnap,
                       !.attempts = @ + 1]]
  /\ UNCHANGED store

(* The commit: all writes at once if the documents read are unchanged,     *)
(* otherwise the update function runs again.                               *)
TxCommit(p) ==
  LET pr == procs[p]
      r == txBody(pr, withSnap(pr, Store))
  IN
  /\ pr.pc = "commit"
  /\ IF readSetUnchanged(pr, Store)
     THEN /\ Fits(RaceLimits, r.s)
          /\ SetStore(r.s)
          /\ procs' = [procs EXCEPT ![p].pc = "done", ![p].result = "ok",
                                    ![p].snap = NoSnap]
     ELSE /\ procs' = [procs EXCEPT ![p].pc = "read", ![p].snap = NoSnap]
          /\ UNCHANGED store

(* createChatSession after its lookup: update the session found or set a   *)
(* new one, outside any transaction.                                       *)
ChatWrite(p) ==
  LET pr == procs[p]
      r == createChatSession(Store, pr.userId, pr.otherId, pr.adId, pr.reservationId,
                             pr.accepted, pr.found, pr.snap.chat)
  IN
  /\ pr.pc = "write"
  /\ Fits(RaceLimits, r.s)
  /\ SetStore(r.s)
  /\ procs' = [procs EXCEPT ![p].pc = "done", ![p].result = "ok", ![p].found = r.ret,
                            ![p].snap = NoSnap]

RaceNext ==
  \E p \in Procs :
    \/ BeginCreateReservation(p)
    \/ BeginJoinWaitingList(p)
    \/ BeginUpdateReservationStatus(p)
    \/ BeginClaimStreetFind(p)
    \/ BeginCreateChatSession(p)
    \/ ChatLookup(p)
    \/ TxRead(p)
    \/ TxCommit(p)
    \/ ChatWrite(p)

RaceSpec == Init /\ [][RaceNext]_vars

----------------------------------------------------------------------------
(* The owner deletes an ad while requests on it are made and answered      *)
(* (DeleteSpec)                                                            *)

DeleteLimits ==
  [reservations |-> DeleteMaxReservations, chatSessions |-> DeleteMaxChats,
   messages |-> 0, notifications |-> DeleteMaxNotifications]

(* deleteAd, lines 358-366: the read of the ad and the checks made on it *)
deleteAd(s, adId, userId) ==
  IF adId \notin DOMAIN s.ads THEN Failed(s, "AdNotFound")
  ELSE LET adData == s.ads[adId] IN
    IF adData.userId # userId THEN Failed(s, "Unauthorized")
    ELSE IF ~adData.isStreetFind /\ adData.isReserved
            /\ adData.reservationStatus = "ACCEPTED"
         THEN Failed(s, "AcceptedReservation")
    ELSE Done(s, NoId)

(* adRef.delete(): the store without the ad document *)
deleted(s, adId) == [s EXCEPT !.ads = [a \in DOMAIN s.ads \ {adId} |-> s.ads[a]]]

BeginDeleteAd(p) ==
  \E a \in DOMAIN ads, u \in {1, 2} :
    Call(p, "deleteAd", a, u, NoUser, NoId, "NONE", NoId, "read")

(* deleteAd up to its checks: adRef.get() outside any transaction *)
DeleteAdRead(p) ==
  LET pr == procs[p]
      r == deleteAd(Store, pr.adId, pr.userId)
  IN
  /\ pr.pc = "read"
  /\ pr.op = "deleteAd"
  /\ procs' = [procs EXCEPT ![p] =
       IF r.err = "ok"
       THEN [pr EXCEPT !.pc = "delete", !.attempts = @ + 1]
       ELSE [pr EXCEPT !.pc = "done", !.result = r.err, !.attempts = @ + 1]]
  /\ UNCHANGED store

(* deleteAd after its checks: the images are removed and adRef.delete()    *)
(* deletes the document, whatever it holds by now.                         *)
DeleteAdDelete(p) ==
  /\ procs[p].pc = "delete"
  /\ SetStore(deleted(Store, procs[p].adId))
  /\ procs' = [procs EXCEPT ![p].pc = "done", ![p].result = "ok"]

(* db.runTransaction under DeleteLimits *)
DeleteTxCommit(p) ==
  /\ procs[p].pc = "commit"
  /\ readSetUnchanged(procs[p], Store) => Fits(DeleteLimits, txBody(procs[p], withSnap(procs[p], Store)).s)
  /\ TxCommit(p)

DeleteNext ==
  \E p \in Procs :
    \/ BeginCreateReservation(p)
    \/ BeginUpdateReservationStatus(p)
    \/ BeginDeleteAd(p)
    \/ ChatLookup(p)
    \/ TxRead(p)
    \/ DeleteTxCommit(p)
    \/ DeleteAdRead(p)
    \/ DeleteAdDelete(p)

DeleteSpec == ChatInit /\ [][DeleteNext]_vars

----------------------------------------------------------------------------
(* Two ads in use at once (PairSpec): the negotiated ad a1 of user 1 next  *)
(* to the street find a2 of user 1, or next to the negotiated ad a3 of     *)
(* user 2.                                                                 *)

PairLimits ==
  [reservations |-> PairMaxReservations, chatSessions |-> PairMaxChats,
   messages |-> PairMaxMessages, notifications |-> PairMaxNotifications]

PairAds ==
  {[a \in {"a1", "a2"} |-> createAd(AdOwner[a], AdIsStreetFind[a])],
   [a \in {"a1", "a3"} |-> createAd(IF a = "a1" THEN 1 ELSE 2, FALSE)]}

PairInit ==
  /\ ads \in PairAds
  /\ EmptyStore

PairUsers == {1, 2, 3}

PairCreateReservation ==
  \E a \in DOMAIN ads, u \in PairUsers : Commit(PairLimits, createReservation(Store, a, u))

PairJoinWaitingList ==
  \E a \in DOMAIN ads, u \in PairUsers : Commit(PairLimits, joinWaitingList(Store, a, u))

PairUpdateReservationStatus ==
  \E r \in DOMAIN reservations, st \in StatusArgs, u \in PairUsers :
    \E c \in existingChatDocIds(Store, r, st) :
      Commit(PairLimits, updateReservationStatus(Store, r, st, u, NoId, c))

PairClaimStreetFind ==
  \E a \in DOMAIN ads, u \in PairUsers :
    Commit(PairLimits, claimStreetFind(Store, a, u, ads[a].userId))

(* AdDetailPage.handleStartChat, lines 139-151: the ACCEPTED reservation   *)
(* of the ad's reserver that the chat is linked to, if the ad is ACCEPTED  *)
(* and there is one.                                                       *)
reservationIdForChat(s, adId) ==
  LET found == {r \in DOMAIN s.reservations :
                  /\ s.reservations[r].adId = adId
                  /\ s.reservations[r].status = "ACCEPTED"
                  /\ s.reservations[r].requesterId = s.ads[adId].reservedByUserId}
  IN IF s.ads[adId].reservationStatus = "ACCEPTED" /\ found # {} THEN found ELSE {NoId}

(* AdDetailPage.handleStartChat: the owner or the reserver of a reserved   *)
(* ad opens the chat between the two.                                      *)
HandleStartChat ==
  \E ad \in DOMAIN ads, u \in PairUsers :
    /\ ads[ad].reservedByUserId # NoUser
    /\ u \in {ads[ad].userId, ads[ad].reservedByUserId}
    /\ LET other == IF u = ads[ad].userId THEN ads[ad].reservedByUserId
                    ELSE ads[ad].userId
       IN \E r \in reservationIdForChat(Store, ad) :
            \E c \in existingSessionDocs(Store, u, other, ad) :
              Commit(PairLimits,
                     createChatSession(Store, u, other, ad, r, TRUE, c,
                                       IF c = NoId THEN <<>> ELSE chatSessions[c]))

PairCloseChatSession ==
  \E c \in DOMAIN chatSessions, u \in PairUsers :
    Commit(PairLimits, closeChatSession(Store, c, u))

PairCompleteExchangeAndCloseChat ==
  \E c \in DOMAIN chatSessions, u \in PairUsers :
    Commit(PairLimits, completeExchangeAndCloseChat(Store, c, u))

PairNext ==
  \/ PairCreateReservation
  \/ PairJoinWaitingList
  \/ PairUpdateReservationStatus
  \/ PairClaimStreetFind
  \/ HandleStartChat
  \/ PairCloseChatSession
  \/ PairCompleteExchangeAndCloseChat

PairSpec == PairInit /\ [][PairNext]_vars

----------------------------------------------------------------------------
(* A client that calls the service one call at a time with any ids, and    *)
(* sees how each call ends (ApiSpec)                                       *)

ApiLimits ==
  [reservations |-> ApiMaxReservations, chatSessions |-> ApiMaxChats,
   messages |-> ApiMaxMessages, notifications |-> ApiMaxNotifications]

ApiClient == "p1"
ApiUsers == {1, 2, 3}

(* The id arguments an operation passes to isValidId on entry, with        *)
(* throwOnError left true                                                  *)
validatedIds(pr) ==
  CASE pr.op \in {"createReservation", "joinWaitingList"} ->
         {adIdValue(pr.adId), idValue(pr.userId)}
    [] pr.op = "updateReservationStatus" ->
         {idValue(pr.reservationId), idValue(pr.userId)}
    [] pr.op = "claimStreetFind" ->
         {adIdValue(pr.adId), idValue(pr.userId), idValue(pr.otherId)}
    [] pr.op \in {"closeChatSession", "completeExchangeAndCloseChat"} ->
         {idValue(pr.found), idValue(pr.userId)}
    [] pr.op = "createChatSession" ->
         {idValue(pr.userId), idValue(pr.otherId), adIdValue(pr.adId)}
    [] pr.op = "sendChatMessage" -> {idValue(pr.found), idValue(pr.userId)}
    [] pr.op = "markNotificationAsRead" -> {idValue(pr.notificationId)}

(* What the call does once its ids have passed *)
serviceBody(pr, s) ==
  CASE pr.op \in TxOps -> txBody(pr, s)
    [] pr.op = "closeChatSession" -> closeChatSession(s, pr.found, pr.userId)
    [] pr.op = "completeExchangeAndCloseChat" ->
         completeExchangeAndCloseChat(s, pr.found, pr.userId)
    [] pr.op = "createChatSession" ->
         createChatSession(s, pr.userId, pr.otherId, pr.adId, pr.reservationId,
                           pr.accepted, pr.found,
                           IF pr.found = NoId THEN <<>> ELSE s.chatSessions[pr.found])
    [] pr.op = "sendChatMessage" -> sendChatMessage(s, pr.found, pr.userId)
    [] pr.op = "markNotificationAsRead" ->
         markNotificationAsRead(s, pr.notificationId, pr.userId)

(* A whole call of the service, run alone *)
serviceCall(pr, s) ==
  IF \E v \in validatedIds(pr) : ~isValidId(v)
  THEN Failed(s, "Validation")
  ELSE serviceBody(pr, s)

(* The record of a call: the operation and the arguments passed *)
CallRecord(op, adId, userId, otherId, reservationId, newStatus, notificationId, found) ==
  [IdleProc EXCEPT !.op = op, !.adId = adId, !.userId = userId, !.otherId = otherId,
                   !.reservationId = reservationId, !.newStatus = newStatus,
                   !.notificationId = notificationId, !.found = found]

(* The call is made and ends: its writes are committed, or it has thrown   *)
(* and written nothing.                                                    *)
ApiCall(pr) ==
  LET r == serviceCall(pr, Store) IN
  /\ IF r.err = "ok"
     THEN Fits(ApiLimits, r.s) /\ SetStore(r.s)
     ELSE UNCHANGED store
  /\ procs' = [procs EXCEPT ![ApiClient] = [pr EXCEPT !.pc = "done", !.result = r.err]]

(* The arguments a caller can pass: the id of a document, of no document,  *)
(* or a malformed id; a call passes at most one malformed id.              *)
ApiAdArgs == DOMAIN ads \cup {MissingAd} \cup InvalidAdIds
ApiUserArgs == ApiUsers \cup InvalidIds
ApiReservationArgs == DOMAIN reservations \cup {MissingId} \cup InvalidIds
ApiChatArgs == DOMAIN chatSessions \cup {MissingId} \cup InvalidIds
Malformed(id) == IF id \in InvalidIds THEN 1 ELSE 0
MalformedAd(adId) == IF adId \in InvalidAdIds THEN 1 ELSE 0

ApiCreateReservation ==
  /\ procs[ApiClient].pc = "idle"
  /\ \E a \in ApiAdArgs, u \in ApiUserArgs :
       /\ MalformedAd(a) + Malformed(u) <= 1
       /\ ApiCall(CallRecord("createReservation", a, u, NoUser, NoId, "NONE", NoId, NoId))

ApiJoinWaitingList ==
  /\ procs[ApiClient].pc = "idle"
  /\ \E a \in ApiAdArgs, u \in ApiUserArgs :
       /\ MalformedAd(a) + Malformed(u) <= 1
       /\ ApiCall(CallRecord("joinWaitingList", a, u, NoUser, NoId, "NONE", NoId, NoId))

ApiUpdateReservationStatus ==
  /\ procs[ApiClient].pc = "idle"
  /\ \E r \in ApiReservationArgs, st \in StatusArgs, u \in ApiUserArgs :
       \E n \in {NoId} \cup requestNotifications(Store, r) \cup InvalidIds :
         \E c \in existingChatDocIds(Store, r, st) :
           /\ Malformed(r) + Malformed(u) + Malformed(n) <= 1
           /\ ApiCall(CallRecord("updateReservationStatus", NoAd, u, NoUser, r, st, n, c))

ApiClaimStreetFind ==
  /\ procs[ApiClient].pc = "idle"
  /\ \E a \in ApiAdArgs, u \in ApiUserArgs, o \in ApiUserArgs :
       /\ MalformedAd(a) + Malformed(u) + Malformed(o) <= 1
       /\ ApiCall(CallRecord("claimStreetFind", a, u, o, NoId, "NONE", NoId, NoId))

ApiCloseChatSession ==
  /\ procs[ApiClient].pc = "idle"
  /\ \E c \in ApiChatArgs, u \in ApiUserArgs :
       /\ Malformed(c) + Malformed(u) <= 1
       /\ ApiCall(CallRecord("closeChatSession", NoAd, u, NoUser, NoId, "NONE", NoId, c))

ApiCompleteExchangeAndCloseChat ==
  /\ procs[ApiClient].pc = "idle"
  /\ \E c \in ApiChatArgs, u \in ApiUserArgs :
       /\ Malformed(c) + Malformed(u) <= 1
       /\ ApiCall(CallRecord("completeExchangeAndCloseChat", NoAd, u, NoUser, NoId, "NONE",
                             NoId, c))

(* getAds, lines 198-202: where('reservationStatus', '!=', COMPLETED); a   *)
(* not-equal filter matches only the documents in which the field exists,  *)
(* so an ad document without reservationStatus is not among its results.   *)
whereNotCompleted(s) ==
  {a \in DOMAIN s.ads :
     /\ s.ads[a].reservationStatus # "NONE"
     /\ s.ads[a].reservationStatus # "COMPLETED"}

(* _mapAdDataToAd, lines 169-172: null for an ad that is COMPLETED *)
mapsToNull(adData) == adData.reservationStatus = "COMPLETED"

(* getAds: the ids of the ads it returns *)
getAds(s) == {a \in whereNotCompleted(s) : ~mapsToNull(s.ads[a])}

ApiGetAds ==
  /\ procs[ApiClient].pc = "idle"
  /\ procs' = [procs EXCEPT ![ApiClient] =
       [IdleProc EXCEPT !.op = "getAds", !.pc = "done", !.result = "ok",
                        !.listed = getAds(Store)]]
  /\ UNCHANGED store

(* The caller has seen the result and is ready for its next call *)
ApiReturn ==
  /\ procs[ApiClient].pc = "done"
  /\ procs' = [procs EXCEPT ![ApiClient] = IdleProc]
  /\ UNCHANGED store

ApiNext ==
  \/ ApiCreateReservation
  \/ ApiJoinWaitingList
  \/ ApiUpdateReservationStatus
  \/ ApiClaimStreetFind
  \/ ApiCloseChatSession
  \/ ApiCompleteExchangeAndCloseChat
  \/ ApiGetAds
  \/ ApiReturn

ApiSpec == Init /\ [][ApiNext]_vars

----------------------------------------------------------------------------
(* Every operation of the service that writes, one call at a time, with    *)
(* what the call returns to its caller.                                    *)
SvcMaxReservations == 2
SvcMaxChats == 1
SvcMaxMessages == 1
SvcMaxNotifications == 3
SvcLimits ==
  [reservations |-> SvcMaxReservations, chatSessions |-> SvcMaxChats,
   messages |-> SvcMaxMessages, notifications |-> SvcMaxNotifications]

(* getAdById, lines 210-218: the ad returned, none for a document that     *)
(* does not exist or that _mapAdDataToAd maps to null                      *)
getAdById(s, adId) ==
  IF adId \in DOMAIN s.ads /\ ~mapsToNull(s.ads[adId]) THEN {adId} ELSE {}

(* The operations that end with return firebaseApi.getAdById(adId) *)
ReturnsAd == {"createReservation", "joinWaitingList", "claimStreetFind"}

(* The call is made and ends: its writes are committed and its value is    *)
(* returned, or it has thrown and written nothing.                         *)
SvcCall(pr) ==
  \E r \in {serviceCall(pr, Store)} :
  /\ procs[ApiClient].pc = "idle"
  /\ IF r.err = "ok"
     THEN Fits(SvcLimits, r.s) /\ SetStore(r.s)
     ELSE UNCHANGED store
  /\ procs' = [procs EXCEPT ![ApiClient] =
       [pr EXCEPT !.pc = "done", !.result = r.err,
                  !.found = IF r.err = "ok" /\ pr.op = "createChatSession"
                            THEN r.ret ELSE @,
                  !.listed = IF r.err = "ok" /\ pr.op \in ReturnsAd
                             THEN getAdById(r.s, pr.adId) ELSE {}]]

(* The arguments a caller passes: the ids of the documents and of the users *)
SvcAdArgs == DOMAIN ads
SvcUserArgs == ApiUsers
SvcNotificationArgs == DOMAIN notifications

SvcCreateReservation ==
  /\ procs[ApiClient].pc = "idle"
  /\ \E a \in SvcAdArgs, u \in SvcUserArgs :
       SvcCall(CallRecord("createReservation", a, u, NoUser, NoId, "NONE", NoId, NoId))

SvcJoinWaitingList ==
  /\ procs[ApiClient].pc = "idle"
  /\ \E a \in SvcAdArgs, u \in SvcUserArgs :
       SvcCall(CallRecord("joinWaitingList", a, u, NoUser, NoId, "NONE", NoId, NoId))

SvcUpdateReservationStatus ==
  /\ procs[ApiClient].pc = "idle"
  /\ \E r \in DOMAIN reservations, st \in StatusArgs, u \in {1, 2} :
       \E n \in {NoId} \cup SvcNotificationArgs :
         \E c \in existingChatDocIds(Store, r, st) :
           SvcCall(CallRecord("updateReservationStatus", NoAd, u, NoUser, r, st, n, c))

SvcClaimStreetFind ==
  /\ procs[ApiClient].pc = "idle"
  /\ \E a \in SvcAdArgs, u \in SvcUserArgs :
       SvcCall(CallRecord("claimStreetFind", a, u,
                          IF a \in DOMAIN ads THEN ads[a].userId ELSE 1,
                          NoId, "NONE", NoId, NoId))

SvcCreateChatSession ==
  /\ procs[ApiClient].pc = "idle"
  /\ \E a \in ApiUsers, b \in ApiUsers, ad \in DOMAIN ads, acc \in BOOLEAN :
       /\ a # b
       /\ \E c \in existingSessionDocs(Store, a, b, ad) :
            SvcCall([CallRecord("createChatSession", ad, a, b, NoId, "NONE", NoId, c)
                       EXCEPT !.accepted = acc])

SvcSendChatMessage ==
  /\ procs[ApiClient].pc = "idle"
  /\ \E c \in DOMAIN chatSessions, u \in ApiUsers :
       SvcCall(CallRecord("sendChatMessage", NoAd, u, NoUser, NoId, "NONE", NoId, c))

SvcCloseChatSession ==
  /\ procs[ApiClient].pc = "idle"
  /\ \E c \in DOMAIN chatSessions, u \in ApiUsers :
       SvcCall(CallRecord("closeChatSession", NoAd, u, NoUser, NoId, "NONE", NoId, c))

SvcCompleteExchangeAndCloseChat ==
  /\ procs[ApiClient].pc = "idle"
  /\ \E c \in DOMAIN chatSessions, u \in ApiUsers :
       SvcCall(CallRecord("completeExchangeAndCloseChat", NoAd, u, NoUser, NoId, "NONE",
                          NoId, c))

SvcMarkNotificationAsRead ==
  /\ procs[ApiClient].pc = "idle"
  /\ \E n \in SvcNotificationArgs, u \in ApiUsers :
       SvcCall(CallRecord("markNotificationAsRead", NoAd, u, NoUser, NoId, "NONE", n, NoId))

SvcNext ==
  \/ SvcCreateReservation
  \/ SvcJoinWaitingList
  \/ SvcUpdateReservationStatus
  \/ SvcClaimStreetFind
  \/ SvcCreateChatSession
  \/ SvcSendChatMessage
  \/ SvcCloseChatSession
  \/ SvcCompleteExchangeAndCloseChat
  \/ SvcMarkNotificationAsRead
  \/ ApiReturn

SvcSpec == Init /\ [][SvcNext]_vars

----------------------------------------------------------------------------
(* Properties of the reservation engine (Spec) *)

ActiveStatuses == {"PENDING", "ACCEPTED"}

ActiveReservations(a) ==
  {r \in DOMAIN reservations :
     reservations[r].adId = a /\ reservations[r].status \in ActiveStatuses}

(* C1: in every reachable state each ad has at most one reservation whose  *)
(* status is PENDING or ACCEPTED.                                          *)
C1_AtMostOneActiveReservation ==
  \A a \in DOMAIN ads : Cardinality(ActiveReservations(a)) <= 1

(* C2: in every reachable state, for every ad, isReserved is true iff      *)
(* reservationStatus is PENDING, ACCEPTED or COMPLETED.                    *)
C2_IsReservedIffStatus ==
  \A a \in DOMAIN ads :
    ads[a].isReserved <=> ads[a].reservationStatus \in {"PENDING", "ACCEPTED", "COMPLETED"}

(* C4: in every reachable state the waiting list of each ad holds no user  *)
(* twice, not the owner of the ad and not its current reserver.            *)
C4_WaitingListWellFormed ==
  \A a \in DOMAIN ads :
    LET wl == ads[a].waitingListUserIds IN
      /\ \A i, j \in DOMAIN wl : wl[i] = wl[j] => i = j
      /\ ~includes(wl, ads[a].userId)
      /\ ~includes(wl, ads[a].reservedByUserId)

(* C5: promotion is strictly first in, first out.  In every step the       *)
(* waiting list of an ad stays as it is, gets one new user at its end, or  *)
(* loses its head, and then the step creates the PENDING reservation of    *)
(* that head and makes it the reserver; and a step that creates a          *)
(* reservation for a waiting user creates it for the head of the list.     *)
C5_FifoPromotion ==
  [][\A a \in DOMAIN ads :
       LET wl == ads[a].waitingListUserIds
           wl2 == ads'[a].waitingListUserIds
           created == Len(reservations') = Len(reservations) + 1
           new == reservations'[Len(reservations')]
           promoted == /\ created
                       /\ new.adId = a
                       /\ new.status = "PENDING"
                       /\ new.requesterId = wl[1]
                       /\ ads'[a].reservedByUserId = wl[1]
                       /\ ads'[a].reservationStatus = "PENDING"
       IN /\ \/ wl2 = wl
             \/ \E u \in Users : ~includes(wl, u) /\ wl2 = Append(wl, u)
             \/ wl # <<>> /\ wl2 = Tail(wl) /\ promoted
          /\ (created /\ new.adId = a /\ includes(wl, new.requesterId))
               => (wl2 = Tail(wl) /\ promoted)
    ]_vars

(* Two users joined one after the other, the first was promoted and the    *)
(* second is now alone on the list.                                        *)
C5_Witness ==
  \E a \in DOMAIN ads, i, j, k \in DOMAIN notifications :
    /\ i < j /\ j < k
    /\ notifications[i].type = "WAITING_LIST_JOINED"
    /\ notifications[j].type = "WAITING_LIST_JOINED"
    /\ notifications[i].userId # notifications[j].userId
    /\ notifications[k].type = "PROMOTED_FROM_WAITING_LIST"
    /\ reservations[notifications[k].reservationId].requesterId = notifications[i].userId
    /\ ads[a].waitingListUserIds = <<notifications[j].userId>>
    /\ ads[a].reservedByUserId = notifications[i].userId

----------------------------------------------------------------------------
(* Properties of the chat session manager, one call at a time (ChatSpec) *)

SamePairAndAd(c, d) ==
  /\ chatSessions[c].participantIds = chatSessions[d].participantIds
  /\ chatSessions[c].adId = chatSessions[d].adId

(* C7: one call at a time, no two distinct chat sessions have the same     *)
(* participant pair and the same ad, and the session an accepted           *)
(* reservation links is the session of its owner, its requester and its    *)
(* ad.                                                                     *)
C7_OneSessionPerPairAndAd ==
  /\ \A c, d \in DOMAIN chatSessions : SamePairAndAd(c, d) => c = d
  /\ \A r \in DOMAIN reservations :
       reservations[r].chatSessionId # NoId =>
         /\ reservations[r].chatSessionId \in DOMAIN chatSessions
         /\ chatSessions[reservations[r].chatSessionId].participantIds =
              sortedParticipantIds(reservations[r].ownerId, reservations[r].requesterId)
         /\ chatSessions[reservations[r].chatSessionId].adId = reservations[r].adId

(* A session that was closed has been reused and reopened by an acceptance *)
(* and is the only session.                                                *)
C7_Witness ==
  \E r \in DOMAIN reservations :
    /\ reservations[r].status = "ACCEPTED"
    /\ reservations[r].chatSessionId = 1
    /\ Len(chatSessions) = 1
    /\ ~chatSessions[1].isClosed
    /\ chatSessions[1].lastMessageText = "closed"
    /\ chatSessions[1].reservationId = r

----------------------------------------------------------------------------
(* Properties of interleaved calls (RaceSpec) *)

(* C3: in every reachable state, also when calls race, an ad whose         *)
(* reservationStatus is PENDING or ACCEPTED has a reservation for that ad  *)
(* with the same status whose requesterId is the ad's reservedByUserId.    *)
C3_AdBackedByReservation ==
  \A a \in DOMAIN ads :
    ads[a].reservationStatus \in ActiveStatuses =>
      \E r \in DOMAIN reservations :
        /\ reservations[r].adId = a
        /\ reservations[r].status = ads[a].reservationStatus
        /\ reservations[r].requesterId = ads[a].reservedByUserId

(* A decline and an acceptance of the same reservation have raced: one of  *)
(* them had to run its update function again, and the ad shows the         *)
(* acceptance.                                                             *)
C3_Witness ==
  \E p, q \in Procs :
    /\ p # q
    /\ procs[p].op = "updateReservationStatus" /\ procs[q].op = "updateReservationStatus"
    /\ procs[p].reservationId = procs[q].reservationId
    /\ procs[p].newStatus = "DECLINED" /\ procs[q].newStatus = "ACCEPTED"
    /\ procs[p].result = "ok" /\ procs[q].result = "ok"
    /\ procs[q].attempts = 2
    /\ ads[procs[q].adId].reservationStatus = "ACCEPTED"

(* The step is taken by client p inside a call of updateReservationStatus *)
UpdateStep(p) ==
  /\ procs[p].op = "updateReservationStatus"
  /\ procs[p].pc \in {"query", "read", "commit"}
  /\ procs'[p] # procs[p]

(* All effects of the acceptance or decline that client p asked for *)
UpdateEffects(p) ==
  LET pr == procs[p]
      r == pr.reservationId
      R == reservations[r]
      a == R.adId
      wl == ads[a].waitingListUserIds
      c == reservations'[r].chatSessionId
      nn == Len(notifications)
      nr == Len(reservations)
  IN
  /\ reservations'[r].status = pr.newStatus
  /\ \A x \in DOMAIN reservations : x # r => reservations'[x] = reservations[x]
  /\ pr.notificationId # NoId => notifications'[pr.notificationId].isRead
  /\ IF pr.newStatus = "ACCEPTED"
     THEN /\ c \in DOMAIN chatSessions'
          /\ chatSessions'[c].participantIds = sortedParticipantIds(R.ownerId, R.requesterId)
          /\ chatSessions'[c].adId = a
          /\ ~chatSessions'[c].isClosed
          /\ chatSessions'[c].reservationWasAccepted
          /\ chatSessions'[c].reservationId = r
          /\ ads'[a].reservationStatus = "ACCEPTED"
          /\ ads'[a].isReserved
          /\ ads'[a].reservedByUserId = R.requesterId
          /\ Len(reservations') = nr
          /\ Len(notifications') = nn + 1
          /\ notifications'[nn + 1] =
               Notification(R.requesterId, "RESERVATION_ACCEPTED", <<"chat", c>>, r)
     ELSE /\ reservations'[r].chatSessionId = R.chatSessionId
          /\ chatSessions' = chatSessions
          /\ notifications'[Len(notifications')] =
               Notification(R.requesterId, "RESERVATION_DECLINED", <<"ad", a>>, r)
          /\ IF wl # <<>>
             THEN /\ Len(reservations') = nr + 1
                  /\ reservations'[nr + 1] =
                       [adId |-> a, requesterId |-> wl[1], ownerId |-> ads[a].userId,
                        status |-> "PENDING", chatSessionId |-> NoId]
                  /\ ads'[a].reservationStatus = "PENDING"
                  /\ ads'[a].isReserved
                  /\ ads'[a].reservedByUserId = wl[1]
                  /\ ads'[a].waitingListUserIds = Tail(wl)
                  /\ Len(notifications') = nn + 2
                  /\ notifications'[nn + 1].type = "PROMOTED_FROM_WAITING_LIST"
                  /\ notifications'[nn + 1].reservationId = nr + 1
             ELSE /\ Len(reservations') = nr
                  /\ ads'[a].reservationStatus = "NONE"
                  /\ ~ads'[a].isReserved
                  /\ ads'[a].reservedByUserId = NoUser
                  /\ ads'[a].waitingListUserIds = <<>>
                  /\ Len(notifications') = nn + 1

(* C6: updateReservationStatus is all-or-nothing.  The step in which a     *)
(* call succeeds makes all its effects visible at once: reservation        *)
(* status, ad fields, chat session and chatSessionId link, promoted        *)
(* reservation, acknowledged notification and emitted notifications; every *)
(* other step of the call, a failed check and a retry after a conflict     *)
(* included, leaves the store as it is.                                    *)
C6_UpdateAllOrNothing ==
  [][\A p \in Procs :
       UpdateStep(p) =>
         IF procs'[p].pc = "done" /\ procs'[p].result = "ok"
         THEN UpdateEffects(p)
         ELSE UNCHANGED store
    ]_vars

(* An acceptance that acknowledged its notification went through after a   *)
(* conflict with another client's write, and another call failed its       *)
(* check.                                                                  *)
C6_Witness ==
  \E p, q \in Procs :
    /\ p # q
    /\ procs[p].op = "updateReservationStatus"
    /\ procs[p].newStatus = "ACCEPTED"
    /\ procs[p].notificationId # NoId
    /\ procs[p].pc = "done" /\ procs[p].result = "ok"
    /\ procs[p].attempts = 2
    /\ reservations[procs[p].reservationId].chatSessionId # NoId
    /\ procs[q].op = "updateReservationStatus"
    /\ procs[q].result = "Unauthorized"

(* Client p has finished a call that opens a chat session: an acceptance   *)
(* or createChatSession                                                    *)
OpenedChat(p) ==
  /\ procs[p].pc = "done" /\ procs[p].result = "ok"
  /\ \/ procs[p].op = "createChatSession"
     \/ procs[p].op = "updateReservationStatus" /\ procs[p].newStatus = "ACCEPTED"

(* The participant pair of the session that the call of client p opens *)
ChatPair(p) ==
  IF procs[p].op = "createChatSession"
  THEN sortedParticipantIds(procs[p].userId, procs[p].otherId)
  ELSE sortedParticipantIds(reservations[procs[p].reservationId].ownerId,
                            reservations[procs[p].reservationId].requesterId)

(* C8: the chat lookup-then-create is race-safe: after two clients have    *)
(* finished acceptances or createChatSession calls for the same pair and   *)
(* ad, however their reads and writes interleaved, at most one chat        *)
(* session for that pair and ad exists.                                    *)
C8_RaceSafeChatLookup ==
  \A p, q \in Procs :
    (/\ p # q
     /\ OpenedChat(p) /\ OpenedChat(q)
     /\ ChatPair(p) = ChatPair(q)
     /\ procs[p].adId = procs[q].adId)
    => Cardinality({c \in DOMAIN chatSessions :
                      /\ chatSessions[c].participantIds = ChatPair(p)
                      /\ chatSessions[c].adId = procs[p].adId}) <= 1

(* Clients p and q have each made one call, of operation op on the same    *)
(* ad for different users, and both calls are over.                        *)
BothCalled(p, q, op) ==
  /\ p # q
  /\ procs[p].op = op /\ procs[q].op = op
  /\ procs[p].calls = 1 /\ procs[q].calls = 1
  /\ procs[p].pc = "done" /\ procs[q].pc = "done"
  /\ procs[p].adId = procs[q].adId
  /\ procs[p].userId # procs[q].userId

(* C9: when two requesters call createReservation on the same open ad,     *)
(* exactly one call succeeds; afterwards the ad has exactly one PENDING    *)
(* reservation, of the winner, its reservedByUserId is the winner, exactly *)
(* one RESERVATION_REQUEST notification exists, and the other call failed  *)
(* on the reserved ad and wrote nothing.                                   *)
C9_OneReservationWins ==
  \A p, q \in Procs :
    (/\ BothCalled(p, q, "createReservation")
     /\ ~ads[procs[p].adId].isStreetFind
     /\ procs[p].userId # ads[procs[p].adId].userId
     /\ procs[q].userId # ads[procs[q].adId].userId)
    => \E w, l \in {p, q} :
         /\ w # l
         /\ procs[w].result = "ok"
         /\ procs[l].result = "AlreadyReserved"
         /\ reservations = <<[adId |-> procs[w].adId, requesterId |-> procs[w].userId,
                              ownerId |-> ads[procs[w].adId].userId, status |-> "PENDING",
                              chatSessionId |-> NoId]>>
         /\ ads[procs[w].adId].isReserved
         /\ ads[procs[w].adId].reservedByUserId = procs[w].userId
         /\ ads[procs[w].adId].reservationStatus = "PENDING"
         /\ notifications = <<Notification(ads[procs[w].adId].userId, "RESERVATION_REQUEST",
                                           <<"reservation", 1>>, 1)>>
         /\ chatSessions = <<>>

(* Both requesters read the open ad; the loser's commit found the ad       *)
(* changed and its second run failed.                                      *)
C9_Witness ==
  \E p, q \in Procs :
    /\ BothCalled(p, q, "createReservation")
    /\ procs[p].result = "ok" /\ procs[p].attempts = 1
    /\ procs[q].result = "AlreadyReserved" /\ procs[q].attempts = 2
    /\ ads[procs[p].adId].reservedByUserId = procs[p].userId

(* C10: when two users call claimStreetFind on the same unclaimed street   *)
(* find, exactly one call succeeds: the ad ends COMPLETED with the winner  *)
(* as reservedByUserId, exactly one STREET_FIND_PICKED_UP notification     *)
(* exists, and the other call failed as already picked up and changed      *)
(* nothing.                                                                *)
C10_OneClaimWins ==
  \A p, q \in Procs :
    (/\ BothCalled(p, q, "claimStreetFind")
     /\ ads[procs[p].adId].isStreetFind)
    => \E w, l \in {p, q} :
         /\ w # l
         /\ procs[w].result = "ok"
         /\ procs[l].result = "AlreadyPickedUp"
         /\ ads[procs[w].adId] =
              [createAd(ads[procs[w].adId].userId, TRUE)
                 EXCEPT !.isReserved = TRUE,
                        !.reservedByUserId = procs[w].userId,
                        !.reservationStatus = "COMPLETED"]
         /\ Len(notifications) = 1
         /\ notifications[1].type = "STREET_FIND_PICKED_UP"
         /\ reservations = <<>>
         /\ chatSessions = <<>>

(* Both users read the unclaimed street find; the loser's commit found the *)
(* ad changed and its second run failed.                                   *)
C10_Witness ==
  \E p, q \in Procs :
    /\ BothCalled(p, q, "claimStreetFind")
    /\ procs[p].result = "ok" /\ procs[p].attempts = 1
    /\ procs[q].result = "AlreadyPickedUp" /\ procs[q].attempts = 2
    /\ ads[procs[p].adId].reservedByUserId = procs[p].userId

----------------------------------------------------------------------------
(* Properties of the chat page and the chat operations (PageSpec) *)

(* The step is a call of operation op made from the page of client p *)
PageStep(p, op) ==
  /\ procs'[p].calls = procs[p].calls + 1
  /\ procs'[p].op = op

(* C11: a call of completeExchangeAndCloseChat on a chat session that is   *)
(* already closed emits no notification and does not write the ad: the     *)
(* notifications and the ad's fields are the same before and after it.     *)
C11_CompleteOnClosedChatWritesNothing ==
  [][\A p \in Procs :
       (/\ PageStep(p, "completeExchangeAndCloseChat")
        /\ chatSessions[procs[p].found].isClosed)
       => /\ notifications' = notifications
          /\ ads' = ads
    ]_vars

(* C12: the step of a successful completeExchangeAndCloseChat on a session *)
(* opened by an accepted reservation sets the ad's reservationStatus to    *)
(* COMPLETED, closes the chat and gives the linked reservation (the one    *)
(* whose chatSessionId is this session) the status COMPLETED.              *)
C12_CompleteMarksReservation ==
  [][\A p \in Procs :
       PageStep(p, "completeExchangeAndCloseChat") =>
         LET c == procs[p].found IN
           /\ ads'[chatSessions[c].adId].reservationStatus = "COMPLETED"
           /\ chatSessions'[c].isClosed
           /\ \A r \in DOMAIN reservations :
                (/\ reservations[r].chatSessionId = c
                 /\ reservations[r].status = "ACCEPTED")
                => reservations'[r].status = "COMPLETED"
    ]_vars

----------------------------------------------------------------------------
(* Properties of single operations of the reservation engine *)

(* C13: COMPLETED is terminal.  Once an ad's reservationStatus is          *)
(* COMPLETED, no call of createReservation, joinWaitingList,               *)
(* updateReservationStatus, claimStreetFind, closeChatSession or           *)
(* completeExchangeAndCloseChat changes the ad's reservationStatus,        *)
(* isReserved or reservedByUserId.                                         *)
C13_CompletedIsTerminal ==
  [][\A a \in DOMAIN ads :
       ads[a].reservationStatus = "COMPLETED" =>
         /\ ads'[a].reservationStatus = "COMPLETED"
         /\ ads'[a].isReserved = ads[a].isReserved
         /\ ads'[a].reservedByUserId = ads[a].reservedByUserId
    ]_vars

(* The step is taken by client p inside the transaction of operation op *)
TxStep(p, op) ==
  /\ procs[p].op = op
  /\ procs[p].pc \in {"read", "commit"}
  /\ procs'[p] # procs[p]

(* C14: createReservation on an ad that is already reserved fails with the *)
(* conflict error and changes nothing: no step of the call made while the  *)
(* ad is reserved writes the ad, the reservations or the notifications,    *)
(* and the run of its checks on the reserved ad ends the call with that    *)
(* error.                                                                  *)
C14_ReserveOnReservedFails ==
  [][\A p \in Procs :
       (/\ TxStep(p, "createReservation")
        /\ ads[procs[p].adId].isReserved)
       => /\ UNCHANGED store
          /\ procs'[p].result # "ok"
          /\ (/\ procs[p].pc = "read"
              /\ ~ads[procs[p].adId].isStreetFind
              /\ ads[procs[p].adId].userId # procs[p].userId)
             => (procs'[p].pc = "done" /\ procs'[p].result = "AlreadyReserved")
    ]_vars

(* A second requester has called createReservation on an ad that holds the *)
(* first requester's reservation, and the call has failed at once.         *)
C14_Witness ==
  \E p \in Procs :
    /\ procs[p].op = "createReservation"
    /\ procs[p].pc = "done"
    /\ procs[p].result = "AlreadyReserved"
    /\ procs[p].attempts = 1
    /\ Len(reservations) = 1
    /\ reservations[1].requesterId # procs[p].userId
    /\ ads[procs[p].adId].reservedByUserId = reservations[1].requesterId
    /\ Len(notifications) = 1

(* C15: the step in which createReservation(adId, requesterId) succeeds    *)
(* is made on an open ad that is no street find, by a user who is not its  *)
(* owner; it creates exactly one reservation, PENDING, of the caller and   *)
(* the ad's owner; sets the ad to isReserved, reservedByUserId the caller  *)
(* and reservationStatus PENDING; emits exactly one RESERVATION_REQUEST    *)
(* notification to the owner whose relatedItemId is the new reservation;   *)
(* and changes nothing else.                                               *)
C15_ReserveEffects ==
  [][\A p \in Procs :
       (/\ TxStep(p, "createReservation")
        /\ procs'[p].result = "ok")
       => LET a == procs[p].adId
              u == procs[p].userId
              new == Len(reservations) + 1
          IN /\ ~ads[a].isReserved
             /\ ~ads[a].isStreetFind
             /\ ads[a].userId # u
             /\ reservations' = Append(reservations,
                  [adId |-> a, requesterId |-> u, ownerId |-> ads[a].userId,
                   status |-> "PENDING", chatSessionId |-> NoId])
             /\ ads' = [ads EXCEPT ![a] = [@ EXCEPT !.isReserved = TRUE,
                                                    !.reservedByUserId = u,
                                                    !.reservationStatus = "PENDING"]]
             /\ notifications' = Append(notifications,
                  [userId |-> ads[a].userId, type |-> "RESERVATION_REQUEST",
                   relatedItemId |-> <<"reservation", new>>, isRead |-> FALSE,
                   reservationId |-> new])
             /\ UNCHANGED <<chatSessions, messages>>
    ]_vars

(* A requester has reserved an ad that an earlier decline had reopened *)
C15_Witness ==
  \E p \in Procs :
    /\ procs[p].op = "createReservation"
    /\ procs[p].pc = "done"
    /\ procs[p].result = "ok"
    /\ Len(reservations) = 2
    /\ reservations[1].status = "DECLINED"
    /\ reservations[2].status = "PENDING"
    /\ reservations[2].requesterId = procs[p].userId
    /\ ads[procs[p].adId].reservedByUserId = procs[p].userId
    /\ notifications[Len(notifications)].type = "RESERVATION_REQUEST"

(* Reservation r is the active reservation of its ad: it is PENDING or     *)
(* ACCEPTED and the ad carries its status and its requester.               *)
IsActiveReservation(r) ==
  /\ reservations[r].status \in ActiveStatuses
  /\ ads[reservations[r].adId].reservationStatus = reservations[r].status
  /\ ads[reservations[r].adId].reservedByUserId = reservations[r].requesterId

(* The step declines reservation r *)
Declines(r) ==
  /\ reservations[r].status # "DECLINED"
  /\ reservations'[r].status = "DECLINED"

(* C16: the step in which the owner declines the active reservation of an  *)
(* ad whose waiting list is not empty also creates a new PENDING           *)
(* reservation for the head of the waiting list, leaves the ad with        *)
(* isReserved true, reservationStatus PENDING and reservedByUserId that    *)
(* head, and leaves as waiting list the old list without its head, in the  *)
(* same order.                                                             *)
C16_DeclinePromotesHead ==
  [][\A r \in DOMAIN reservations :
       LET a == reservations[r].adId
           wl == ads[a].waitingListUserIds
           new == Len(reservations) + 1
       IN (IsActiveReservation(r) /\ Declines(r) /\ wl # <<>>)
          => /\ Len(reservations') = new
             /\ reservations'[new] =
                  [adId |-> a, requesterId |-> wl[1], ownerId |-> ads[a].userId,
                   status |-> "PENDING", chatSessionId |-> NoId]
             /\ ads'[a].isReserved
             /\ ads'[a].reservationStatus = "PENDING"
             /\ ads'[a].reservedByUserId = wl[1]
             /\ ads'[a].waitingListUserIds = SubSeq(wl, 2, Len(wl))
    ]_vars

(* The first reservation was declined while two users were waiting: the    *)
(* second reservation is the first waiting user's and the other user is    *)
(* still waiting.                                                          *)
C16_Witness ==
  /\ Len(reservations) = 2
  /\ reservations[1].status = "DECLINED"
  /\ reservations[2].status = "PENDING"
  /\ ads[reservations[2].adId].reservedByUserId = reservations[2].requesterId
  /\ Len(ads[reservations[2].adId].waitingListUserIds) = 1
  /\ ads[reservations[2].adId].waitingListUserIds[1] \notin
       {reservations[1].requesterId, reservations[2].requesterId}
  /\ notifications[Len(notifications)].type = "RESERVATION_DECLINED"

(* C17: the step in which the owner declines the active reservation of an  *)
(* ad whose waiting list is empty creates no reservation and returns the   *)
(* ad to Open: isReserved false, reservedByUserId and reservationStatus    *)
(* cleared; and createReservation by any user other than the owner then    *)
(* succeeds on that ad.                                                    *)
C17_DeclineReopensAd ==
  [][\A r \in DOMAIN reservations :
       LET a == reservations[r].adId
       IN (IsActiveReservation(r) /\ Declines(r) /\ ads[a].waitingListUserIds = <<>>)
          => /\ Len(reservations') = Len(reservations)
             /\ ~ads'[a].isReserved
             /\ ads'[a].reservedByUserId = NoUser
             /\ ads'[a].reservationStatus = "NONE"
             /\ ads'[a].waitingListUserIds = <<>>
             /\ \A u \in Users :
                  u # ads[a].userId => createReservation(Store, a, u)'.err = "ok"
    ]_vars

(* The only reservation of an ad with nobody waiting was declined, and a   *)
(* later request on the reopened ad has gone through.                      *)
C17_Witness ==
  /\ Len(reservations) = 2
  /\ reservations[1].status = "DECLINED"
  /\ reservations[2].status = "PENDING"
  /\ Len(notifications) = 3
  /\ notifications[2].type = "RESERVATION_DECLINED"
  /\ notifications[3].type = "RESERVATION_REQUEST"
  /\ ads[reservations[2].adId].reservedByUserId = reservations[2].requesterId

----------------------------------------------------------------------------
(* Properties of an acceptance (ChatSpec) *)

(* C18: after the step in which the owner accepts a PENDING reservation    *)
(* the reservation is ACCEPTED; the ad has isReserved true,                *)
(* reservationStatus ACCEPTED and reservedByUserId the requester; the      *)
(* reservation's chatSessionId names a chat session whose participants are *)
(* exactly the owner and the requester, whose ad is the reservation's ad   *)
(* and which is open; and a session of that pair and ad that existed       *)
(* before, closed or not, is that session, reopened, and no new one.       *)
C18_AcceptEffects ==
  [][\A r \in DOMAIN reservations :
       (reservations[r].status = "PENDING" /\ reservations'[r].status = "ACCEPTED")
       => LET R == reservations[r]
              a == R.adId
              c == reservations'[r].chatSessionId
              before == chatQuery(Store, R.ownerId, R.requesterId, a)
          IN /\ ads'[a].isReserved
             /\ ads'[a].reservationStatus = "ACCEPTED"
             /\ ads'[a].reservedByUserId = R.requesterId
             /\ c \in DOMAIN chatSessions'
             /\ {chatSessions'[c].participantIds[i] : i \in {1, 2}}
                  = {R.ownerId, R.requesterId}
             /\ Len(chatSessions'[c].participantIds) = 2
             /\ chatSessions'[c].adId = a
             /\ ~chatSessions'[c].isClosed
             /\ IF before = {}
                THEN Len(chatSessions') = Len(chatSessions) + 1 /\ c = Len(chatSessions')
                ELSE Len(chatSessions') = Len(chatSessions) /\ c \in before
    ]_vars

(* The one reservation has been accepted and names the only session of    *)
(* its pair and ad, which has been closed once and is open.                *)
C18_Witness ==
  /\ Len(reservations) = 1
  /\ reservations[1].status = "ACCEPTED"
  /\ reservations[1].chatSessionId = 1
  /\ Len(chatSessions) = 1
  /\ ~chatSessions[1].isClosed
  /\ chatSessions[1].lastMessageText = "closed"
  /\ Len(messages[1]) = 1
  /\ Len(notifications) = 2
  /\ notifications[2].type = "RESERVATION_ACCEPTED"

----------------------------------------------------------------------------
(* Properties of rejected calls *)

(* C19: updateReservationStatus called by a user who is not the            *)
(* reservation's ownerId fails as unauthorized and changes nothing: no     *)
(* step of the call writes the reservation, the ad and its waiting list,   *)
(* a chat session or a notification, the one named by                      *)
(* originalNotificationId included, and the run of its checks ends the     *)
(* call with the unauthorized error.                                       *)
C19_UnauthorizedUpdateChangesNothing ==
  [][\A p \in Procs :
       (/\ UpdateStep(p)
        /\ reservations[procs[p].reservationId].ownerId # procs[p].userId)
       => /\ UNCHANGED store
          /\ procs'[p].result # "ok"
          /\ procs[p].pc = "read"
             => (procs'[p].pc = "done" /\ procs'[p].result = "Unauthorized")
    ]_vars

(* The requester has tried to accept their own pending reservation from    *)
(* the owner's notification: the call failed, the reservation is still     *)
(* PENDING and the notification unread.                                    *)
C19_Witness ==
  \E p \in Procs :
    /\ procs[p].op = "updateReservationStatus"
    /\ procs[p].newStatus = "ACCEPTED"
    /\ procs[p].pc = "done"
    /\ procs[p].result = "Unauthorized"
    /\ procs[p].userId = reservations[procs[p].reservationId].requesterId
    /\ procs[p].notificationId # NoId
    /\ ~notifications[procs[p].notificationId].isRead
    /\ reservations[procs[p].reservationId].status = "PENDING"
    /\ chatSessions = <<>>

(* C20: sendChatMessage on a chat session whose isClosed is true is        *)
(* rejected: the step appends no message, emits no notification and leaves *)
(* the session closed with its closedByUserId unchanged.                   *)
C20_SendOnClosedChatRejected ==
  [][\A p \in Procs :
       (/\ PageStep(p, "sendChatMessage")
        /\ chatSessions[procs[p].found].isClosed)
       => /\ messages' = messages
          /\ notifications' = notifications
          /\ chatSessions'[procs[p].found].isClosed
          /\ chatSessions'[procs[p].found].closedByUserId =
               chatSessions[procs[p].found].closedByUserId
    ]_vars

----------------------------------------------------------------------------
(* Properties of closing a chat *)

(* C21: the step of a successful closeChatSession leaves every ad, every   *)
(* reservation and every notification as it was; it appends exactly one    *)
(* system message to the session's messages and changes of the session     *)
(* only isClosed, closedByUserId and the last-message fields; every other  *)
(* session and its messages stay as they were.                             *)
C21_CloseChatFrame ==
  [][\A p \in Procs :
       PageStep(p, "closeChatSession") =>
         LET c == procs[p].found
             u == procs[p].userId
         IN /\ ads' = ads
            /\ reservations' = reservations
            /\ notifications' = notifications
            /\ DOMAIN chatSessions' = DOMAIN chatSessions
            /\ \A d \in DOMAIN chatSessions \ {c} :
                 /\ chatSessions'[d] = chatSessions[d]
                 /\ messages'[d] = messages[d]
            /\ messages'[c] = Append(messages[c],
                                     [senderId |-> "system", text |-> "closed",
                                      isSystemMessage |-> TRUE])
            /\ chatSessions'[c] = [chatSessions[c] EXCEPT
                                     !.isClosed = TRUE,
                                     !.closedByUserId = u,
                                     !.lastMessageText = "closed"]
    ]_vars

(* A participant has closed the session that an accepted reservation      *)
(* opened, and the ad is still reserved with that reservation ACCEPTED.    *)
C21_Witness ==
  \E p \in Procs, r \in DOMAIN reservations :
    /\ procs[p].op = "closeChatSession"
    /\ procs[p].found \in DOMAIN chatSessions
    /\ chatSessions[procs[p].found].isClosed
    /\ chatSessions[procs[p].found].closedByUserId = procs[p].userId
    /\ reservations[r].status = "ACCEPTED"
    /\ reservations[r].chatSessionId = procs[p].found
    /\ ads[reservations[r].adId].reservationStatus = "ACCEPTED"
    /\ Len(messages[procs[p].found]) = 1

----------------------------------------------------------------------------
(* Properties of the calls of a client, with their results (ApiSpec) *)

(* The step is a call of operation op; the record of the call, with its    *)
(* arguments and its result, is procs'[ApiClient].                         *)
ApiStep(op) ==
  /\ procs[ApiClient].pc = "idle"
  /\ procs'[ApiClient].pc = "done"
  /\ procs'[ApiClient].op = op

(* C22: a call of closeChatSession or completeExchangeAndCloseChat on an   *)
(* existing session by a user who is not one of its participants fails as  *)
(* unauthorized and leaves ads, reservations, sessions, messages and       *)
(* notifications as they were.                                             *)
C22_NonParticipantRejected ==
  [][\A op \in {"closeChatSession", "completeExchangeAndCloseChat"} :
       (/\ ApiStep(op)
        /\ procs'[ApiClient].found \in DOMAIN chatSessions
        /\ procs'[ApiClient].userId \in Users
        /\ ~includes(chatSessions[procs'[ApiClient].found].participantIds,
                     procs'[ApiClient].userId))
       => /\ procs'[ApiClient].result = "Unauthorized"
          /\ store' = store
    ]_vars

(* A user outside the session has called completeExchangeAndCloseChat on   *)
(* the open session of an accepted reservation and been refused.           *)
C22_Witness ==
  LET pr == procs[ApiClient] IN
  /\ pr.pc = "done"
  /\ pr.op = "completeExchangeAndCloseChat"
  /\ pr.result = "Unauthorized"
  /\ pr.found \in DOMAIN chatSessions
  /\ pr.userId \in Users
  /\ ~includes(chatSessions[pr.found].participantIds, pr.userId)
  /\ ~chatSessions[pr.found].isClosed
  /\ ads[chatSessions[pr.found].adId].reservationStatus = "ACCEPTED"

(* C23: a call of joinWaitingList fails and leaves ads, reservations,      *)
(* sessions, messages and notifications as they were when the ad does not  *)
(* exist, or the ad is not reserved, or its reservationStatus is           *)
(* COMPLETED, or the caller is the ad's owner, or the caller is the ad's   *)
(* current reserver, or the caller is already on the ad's waiting list.    *)
C23_JoinRejected ==
  [][LET a == procs'[ApiClient].adId
         u == procs'[ApiClient].userId
     IN (/\ ApiStep("joinWaitingList")
         /\ \/ a \notin DOMAIN ads
            \/ ~ads[a].isReserved
            \/ ads[a].reservationStatus = "COMPLETED"
            \/ ads[a].userId = u
            \/ ads[a].reservedByUserId = u
            \/ includes(ads[a].waitingListUserIds, u))
        => /\ procs'[ApiClient].result # "ok"
           /\ store' = store
    ]_vars

(* A user who is on the waiting list of a reserved ad has called           *)
(* joinWaitingList on it again and been refused.                           *)
C23_Witness ==
  LET pr == procs[ApiClient] IN
  /\ pr.pc = "done"
  /\ pr.op = "joinWaitingList"
  /\ pr.result = "AlreadyWaiting"
  /\ pr.adId \in DOMAIN ads
  /\ ads[pr.adId].isReserved
  /\ ads[pr.adId].waitingListUserIds = <<pr.userId>>

(* C24: a call of createReservation or joinWaitingList on a street-find ad *)
(* fails and writes nothing, and a call of claimStreetFind on an ad that   *)
(* is no street find, or whose reservationStatus is already COMPLETED,     *)
(* fails and writes nothing.                                               *)
C24_StreetFindSeparation ==
  [][LET a == procs'[ApiClient].adId IN
     /\ (/\ \/ ApiStep("createReservation")
            \/ ApiStep("joinWaitingList")
         /\ a \in DOMAIN ads
         /\ ads[a].isStreetFind)
        => /\ procs'[ApiClient].result # "ok"
           /\ store' = store
     /\ (/\ ApiStep("claimStreetFind")
         /\ a \in DOMAIN ads
         /\ \/ ~ads[a].isStreetFind
            \/ ads[a].reservationStatus = "COMPLETED")
        => /\ procs'[ApiClient].result # "ok"
           /\ store' = store
    ]_vars

(* A street find has been picked up, and a further claimStreetFind on it   *)
(* has been refused.                                                       *)
C24_Witness ==
  LET pr == procs[ApiClient] IN
  /\ pr.pc = "done"
  /\ pr.op = "claimStreetFind"
  /\ pr.result = "AlreadyPickedUp"
  /\ ads[pr.adId].isStreetFind
  /\ ads[pr.adId].reservationStatus = "COMPLETED"
  /\ ads[pr.adId].reservedByUserId # pr.userId

----------------------------------------------------------------------------
(* Properties of the notifications *)

(* C25: every PROMOTED_FROM_WAITING_LIST notification, written by the      *)
(* decline that promotes the head of the waiting list, has as recipient    *)
(* (userId) the promoted user, that is the requester of the reservation    *)
(* the promotion created.                                                  *)
C25_PromotedUserNotified ==
  \A n \in DOMAIN notifications :
    notifications[n].type = "PROMOTED_FROM_WAITING_LIST" =>
      notifications[n].userId = reservations[notifications[n].reservationId].requesterId

(* C26: a successful call of claimStreetFind appends exactly one           *)
(* notification, of type STREET_FIND_PICKED_UP, and its recipient is the   *)
(* userId stored in the claimed ad, whatever owner id the caller passed.   *)
C26_PickedUpNotifiesStoredOwner ==
  [][LET a == procs'[ApiClient].adId IN
     (/\ ApiStep("claimStreetFind")
      /\ procs'[ApiClient].result = "ok")
     => notifications' =
          Append(notifications,
                 Notification(ads[a].userId, "STREET_FIND_PICKED_UP", <<"ad", a>>, NoId))
    ]_vars

----------------------------------------------------------------------------
(* Properties of deleting an ad (DeleteSpec) *)

(* C27: no step deletes a negotiated ad that is reserved with              *)
(* reservationStatus ACCEPTED and has an ACCEPTED reservation: a deleteAd  *)
(* whose read and delete are interleaved with an acceptance leaves the ad  *)
(* in place.                                                               *)
C27_AcceptedAdNotDeleted ==
  [][\A a \in DOMAIN ads :
       (/\ ~ads[a].isStreetFind
        /\ ads[a].isReserved
        /\ ads[a].reservationStatus = "ACCEPTED"
        /\ \E r \in DOMAIN reservations :
             reservations[r].adId = a /\ reservations[r].status = "ACCEPTED")
       => a \in DOMAIN ads'
    ]_vars

(* An id argument of the call was supplied and is not a valid id *)
HasInvalidId(pr) ==
  \/ pr.adId # NoAd /\ ~isValidId(adIdValue(pr.adId))
  \/ \E id \in {pr.userId, pr.otherId, pr.reservationId, pr.notificationId} :
       id # NoId /\ ~isValidId(idValue(id))
  \/ /\ pr.op \in {"closeChatSession", "completeExchangeAndCloseChat"}
     /\ ~isValidId(idValue(pr.found))

(* C28: a call of createReservation, joinWaitingList,                      *)
(* updateReservationStatus, claimStreetFind, closeChatSession or           *)
(* completeExchangeAndCloseChat that is given an invalid id (empty, or     *)
(* with '/' or '..') in any id argument, the optional                      *)
(* originalNotificationId included, fails with the validation error and    *)
(* writes nothing.                                                         *)
C28_InvalidIdRejected ==
  [][(/\ procs[ApiClient].pc = "idle"
      /\ procs'[ApiClient].pc = "done"
      /\ HasInvalidId(procs'[ApiClient]))
     => /\ procs'[ApiClient].result = "Validation"
        /\ store' = store
    ]_vars

(* C29: a call of getAds (listAds) returns exactly the ads whose           *)
(* reservationStatus is not COMPLETED: every ad that is not COMPLETED is   *)
(* returned, an ad never reserved and an ad vacated by a decline included, *)
(* and no COMPLETED ad is.                                                 *)
C29_ListsAllButCompleted ==
  [][ApiStep("getAds") =>
       procs'[ApiClient].listed =
         {a \in DOMAIN ads : ads[a].reservationStatus # "COMPLETED"}
    ]_vars

----------------------------------------------------------------------------
(* Properties of operations on different ads (PairSpec) *)

adReservations(s, a) == {r \in DOMAIN s.reservations : s.reservations[r].adId = a}
adChats(s, a) == {c \in DOMAIN s.chatSessions : s.chatSessions[c].adId = a}

(* What belongs to ad a: its document, its reservations, its sessions and  *)
(* their messages, under the ids the documents have                        *)
AdDocuments(s, a) ==
  [ad |-> s.ads[a],
   reservations |-> [r \in adReservations(s, a) |-> s.reservations[r]],
   chats |-> [c \in adChats(s, a) |-> s.chatSessions[c]],
   messages |-> [c \in adChats(s, a) |-> s.messages[c]]]

(* The place of document id among the documents ids of its ad, in the      *)
(* order they were created: generated ids differ from run to run.          *)
rank(ids, id) ==
  IF id = NoId THEN 0
  ELSE IF id \in ids THEN Cardinality({j \in ids : j <= id})
  ELSE -1

(* What belongs to ad a, with every document id replaced by its rank *)
AdState(s, a) ==
  LET rs == adReservations(s, a)
      cs == adChats(s, a)
  IN [ad |-> s.ads[a],
      reservations |->
        {[id |-> rank(rs, r),
          doc |-> [s.reservations[r] EXCEPT !.chatSessionId = rank(cs, @)]] : r \in rs},
      chats |->
        {[id |-> rank(cs, c),
          doc |-> [s.chatSessions[c] EXCEPT !.reservationId = rank(rs, @)],
          messages |-> s.messages[c]] : c \in cs}]

(* The calls that can be made on ad a in store s: the operation, the       *)
(* caller and the reservation or session of the ad that is named           *)
AdCalls(s, a) ==
  {[op |-> op, adId |-> a, userId |-> u, id |-> NoId, newStatus |-> "NONE"] :
     op \in {"createReservation", "joinWaitingList", "claimStreetFind", "handleStartChat"},
     u \in PairUsers}
  \cup {[op |-> "updateReservationStatus", adId |-> a, userId |-> u, id |-> r,
         newStatus |-> st] :
          r \in adReservations(s, a), st \in StatusArgs, u \in PairUsers}
  \cup {[op |-> op, adId |-> a, userId |-> u, id |-> c, newStatus |-> "NONE"] :
          op \in {"closeChatSession", "completeExchangeAndCloseChat"},
          c \in adChats(s, a), u \in PairUsers}

(* The stores call c can leave behind when it runs alone on store s; a     *)
(* call that fails leaves s.                                               *)
Outcomes(c, s) ==
  CASE c.op = "createReservation" -> {createReservation(s, c.adId, c.userId).s}
    [] c.op = "joinWaitingList" -> {joinWaitingList(s, c.adId, c.userId).s}
    [] c.op = "claimStreetFind" ->
         {claimStreetFind(s, c.adId, c.userId, s.ads[c.adId].userId).s}
    [] c.op = "updateReservationStatus" ->
         {updateReservationStatus(s, c.id, c.newStatus, c.userId, NoId, d).s :
            d \in existingChatDocIds(s, c.id, c.newStatus)}
    [] c.op = "closeChatSession" -> {closeChatSession(s, c.id, c.userId).s}
    [] c.op = "completeExchangeAndCloseChat" ->
         {completeExchangeAndCloseChat(s, c.id, c.userId).s}
    [] c.op = "handleStartChat" ->
         LET adData == s.ads[c.adId]
             other == IF c.userId = adData.userId THEN adData.reservedByUserId
                      ELSE adData.userId
         IN IF adData.reservedByUserId = NoUser
               \/ c.userId \notin {adData.userId, adData.reservedByUserId}
            THEN {s}
            ELSE {createChatSession(s, c.userId, other, c.adId, r, TRUE, d,
                                    IF d = NoId THEN <<>> ELSE s.chatSessions[d]).s :
                    r \in reservationIdForChat(s, c.adId),
                    d \in existingSessionDocs(s, c.userId, other, c.adId)}

After(cs, stores) == UNION {Outcomes(cs, s) : s \in stores}

(* A call on ad x leaves the documents of every other ad y as they were *)
OtherAdsUntouched ==
  \A x \in DOMAIN ads, y \in DOMAIN ads :
    x # y =>
      \A cx \in AdCalls(Store, x) :
        \A s1 \in Outcomes(cx, Store) : AdDocuments(s1, y) = AdDocuments(Store, y)

(* The step is call cx on ad x.  For every call cy on another ad y, cy     *)
(* after the step leaves x and y in a state that cx after cy leaves them   *)
(* in as well.                                                             *)
SameInEitherOrder ==
  \A x \in DOMAIN ads, y \in DOMAIN ads :
    x # y =>
      \A cx \in AdCalls(Store, x) :
        (Store' # Store /\ Store' \in Outcomes(cx, Store)) =>
          \A cy \in AdCalls(Store, y) :
            \A a \in {x, y} :
              {AdState(t, a) : t \in Outcomes(cy, Store')}
                \subseteq {AdState(t, a) : t \in After(cx, Outcomes(cy, Store))}

(* C30: operations on different ads are independent.  In every reachable   *)
(* state, any reservation, street-find or chat call on an ad x leaves the  *)
(* document, the waiting list, the reservations and the chat sessions of   *)
(* every other ad y unchanged; and whenever a call on x is made, a call on *)
(* y that follows it ends with x and y in a state that the two calls made  *)
(* in the other order end in too, so that interleaving the operations on x *)
(* with those on y does not change the final state of x and y.             *)
C30_DifferentAdsIndependent == []OtherAdsUntouched /\ [][SameInEitherOrder]_vars

(* Both ads have a reservation and a chat session, the sessions are        *)
(* between the same two users, and the reservation of one of the ads has   *)
(* been accepted.                                                          *)
C30_Witness ==
  \E x \in DOMAIN ads, y \in DOMAIN ads :
    /\ x # y
    /\ \E cx \in adChats(Store, x), cy \in adChats(Store, y) :
         chatSessions[cx].participantIds = chatSessions[cy].participantIds
    /\ \E r \in adReservations(Store, x) : reservations[r].status = "ACCEPTED"
    /\ adReservations(Store, y) # {}

----------------------------------------------------------------------------
(* C31: notifications are append-only apart from their read flag: no step  *)
(* of the service removes a notification or changes its recipient, its     *)
(* type or its relatedItemId, and a notification that is read stays read.  *)
C31_NotificationsAppendOnly ==
  [][\A n \in DOMAIN notifications :
       /\ n \in DOMAIN notifications'
       /\ notifications'[n].userId = notifications[n].userId
       /\ notifications'[n].type = notifications[n].type
       /\ notifications'[n].relatedItemId = notifications[n].relatedItemId
       /\ notifications[n].isRead => notifications'[n].isRead]_vars

(* A recipient has marked a notification read while another notification   *)
(* is read already and a third is still unread.                            *)
C31_Witness ==
  /\ procs[ApiClient].pc = "done"
  /\ procs[ApiClient].op = "markNotificationAsRead"
  /\ procs[ApiClient].notificationId \in DOMAIN notifications
  /\ notifications[procs[ApiClient].notificationId].userId = procs[ApiClient].userId
  /\ Len(notifications) = SvcMaxNotifications
  /\ \E n \in DOMAIN notifications : ~notifications[n].isRead
  /\ \E n \in DOMAIN notifications :
       /\ n # procs[ApiClient].notificationId
       /\ notifications[n].isRead

----------------------------------------------------------------------------
(* A call of the service has just ended *)
SvcStep(op) ==
  /\ procs[ApiClient].pc = "idle"
  /\ procs'[ApiClient].pc = "done"
  /\ procs'[ApiClient].op = op

(* The operations that never write a reservation's status *)
StatusPreserving ==
  {"createReservation", "joinWaitingList", "claimStreetFind", "createChatSession",
   "sendChatMessage", "closeChatSession"}

(* C32: a reservation is never deleted, and createReservation,             *)
(* joinWaitingList, claimStreetFind, createChatSession, sendChatMessage    *)
(* and closeChatSession leave the status of every existing reservation     *)
(* unchanged: only updateReservationStatus and                             *)
(* completeExchangeAndCloseChat may change one.                            *)
C32_ReservationStatusFrame ==
  [][/\ \A r \in DOMAIN reservations :
          /\ r \in DOMAIN reservations'
          /\ reservations'[r].adId = reservations[r].adId
          /\ reservations'[r].requesterId = reservations[r].requesterId
     /\ (\E op \in StatusPreserving : SvcStep(op)) =>
          \A r \in DOMAIN reservations :
            reservations'[r].status = reservations[r].status
     /\ (\E r \in DOMAIN reservations : reservations'[r].status # reservations[r].status) =>
          \/ SvcStep("updateReservationStatus")
          \/ SvcStep("completeExchangeAndCloseChat")]_vars

(* A session is closed with success while its ad has a PENDING            *)
(* reservation and a DECLINED one.                                         *)
C32_Witness ==
  /\ procs[ApiClient].pc = "done"
  /\ procs[ApiClient].op = "closeChatSession"
  /\ procs[ApiClient].result = "ok"
  /\ \E r \in DOMAIN reservations :
       /\ reservations[r].status = "PENDING"
       /\ reservations[r].adId = chatSessions[procs[ApiClient].found].adId
  /\ \E r \in DOMAIN reservations : reservations[r].status = "DECLINED"

----------------------------------------------------------------------------
(* C33: a joinWaitingList that succeeds appends the user at the end of the *)
(* ad's waiting list, leaves isReserved, reservedByUserId,                 *)
(* reservationStatus and every reservation unchanged, and adds exactly two *)
(* notifications: WAITING_LIST_JOINED to the joiner and                    *)
(* OWNER_WAITING_LIST_UPDATE to the owner of the ad.                       *)
C33_JoinEffects ==
  \A a \in DOMAIN ads, u \in Users :
    LET r == joinWaitingList(Store, a, u)
        before == Len(notifications)
    IN r.err = "ok" =>
         /\ r.s.ads[a].waitingListUserIds = Append(ads[a].waitingListUserIds, u)
         /\ r.s.ads[a].isReserved = ads[a].isReserved
         /\ r.s.ads[a].reservedByUserId = ads[a].reservedByUserId
         /\ r.s.ads[a].reservationStatus = ads[a].reservationStatus
         /\ r.s.reservations = reservations
         /\ Len(r.s.notifications) = before + 2
         /\ SubSeq(r.s.notifications, 1, before) = notifications
         /\ {<<r.s.notifications[n].userId, r.s.notifications[n].type>> :
               n \in {before + 1, before + 2}}
              = {<<u, "WAITING_LIST_JOINED">>, <<ads[a].userId, "OWNER_WAITING_LIST_UPDATE">>}

(* A second user has just joined a waiting list that held one user: the    *)
(* last two notifications are those of that call.                          *)
C33_Witness ==
  \E a \in DOMAIN ads :
    LET list == ads[a].waitingListUserIds
        last == Len(notifications)
    IN /\ Len(list) = 2
       /\ last >= 2
       /\ notifications[last - 1].userId = list[2]
       /\ notifications[last - 1].type = "WAITING_LIST_JOINED"
       /\ notifications[last].userId = ads[a].userId
       /\ notifications[last].type = "OWNER_WAITING_LIST_UPDATE"

----------------------------------------------------------------------------
(* createChatSession called one call at a time on store s: the lookup,     *)
(* then the write                                                          *)
createChatSessionOutcomes(s, a, b, adId, reservationWasAccepted) ==
  {createChatSession(s, a, b, adId, NoId, reservationWasAccepted, c,
                     IF c = NoId THEN <<>> ELSE s.chatSessions[c]) :
     c \in existingSessionDocs(s, a, b, adId)}

(* C34: the chat lookup does not depend on the order of the participants:  *)
(* every stored session has exactly two participant ids, in sorted order,  *)
(* and createChatSession([a, b], ad) followed by                           *)
(* createChatSession([b, a], ad) returns the id of the same session and    *)
(* creates no second one.                                                  *)
C34_LookupIgnoresOrder ==
  /\ \A c \in DOMAIN chatSessions :
       /\ Len(chatSessions[c].participantIds) = 2
       /\ chatSessions[c].participantIds[1] <= chatSessions[c].participantIds[2]
  /\ \A a, b \in ChatUsers, ad \in DOMAIN ads, acc1, acc2 \in BOOLEAN :
       a # b =>
         \A r1 \in createChatSessionOutcomes(Store, a, b, ad, acc1) :
           \A r2 \in createChatSessionOutcomes(r1.s, b, a, ad, acc2) :
             /\ r1.err = "ok"
             /\ r2.err = "ok"
             /\ r2.ret = r1.ret
             /\ Len(r2.s.chatSessions) = Len(r1.s.chatSessions)

(* Two sessions are stored; one of them was closed and has been reopened,  *)
(* and the lookup with its participants in descending order returns it.    *)
C34_Witness ==
  /\ Len(chatSessions) = 2
  /\ \E c \in DOMAIN chatSessions :
       /\ chatSessions[c].lastMessageText = "closed"
       /\ ~chatSessions[c].isClosed
       /\ chatSessions[c].participantIds[1] < chatSessions[c].participantIds[2]
       /\ chatQuery(Store, chatSessions[c].participantIds[2],
                    chatSessions[c].participantIds[1], chatSessions[c].adId) = {c}

----------------------------------------------------------------------------
(* Client p's updateReservationStatus has just succeeded *)
UpdateSucceeds(p) ==
  /\ UpdateStep(p)
  /\ procs'[p].pc = "done"
  /\ procs'[p].result = "ok"

(* C35: when updateReservationStatus succeeds with an                      *)
(* originalNotificationId, that notification is marked read in the very    *)
(* step that writes the reservation's status; in every other step of the   *)
(* call, a failure included, the isRead of every notification is as it     *)
(* was.                                                                    *)
C35_AcknowledgedWithStatus ==
  [][/\ \A p \in Procs :
          UpdateStep(p) /\ procs[p].notificationId # NoId =>
            IF UpdateSucceeds(p)
            THEN /\ notifications'[procs[p].notificationId].isRead
                 /\ reservations'[procs[p].reservationId].status = procs[p].newStatus
            ELSE \A n \in DOMAIN notifications :
                   notifications'[n].isRead = notifications[n].isRead
     /\ \A n \in DOMAIN notifications :
          notifications'[n].isRead # notifications[n].isRead =>
            \E p \in Procs :
              /\ UpdateSucceeds(p)
              /\ procs[p].notificationId = n
              /\ reservations'[procs[p].reservationId].status = procs[p].newStatus]_vars

(* A decline that named its request notification has succeeded and the     *)
(* notification is read, while another client's update that named another  *)
(* request notification was refused and that notification is unread.       *)
C35_Witness ==
  \E p, q \in Procs :
    /\ p # q
    /\ procs[p].op = "updateReservationStatus"
    /\ procs[p].newStatus = "DECLINED"
    /\ procs[p].pc = "done" /\ procs[p].result = "ok"
    /\ procs[p].notificationId # NoId
    /\ notifications[procs[p].notificationId].isRead
    /\ procs[q].op = "updateReservationStatus"
    /\ procs[q].pc = "done" /\ procs[q].result = "Unauthorized"
    /\ procs[q].notificationId # NoId
    /\ ~notifications[procs[q].notificationId].isRead

----------------------------------------------------------------------------
(* C36: the waiting list is non-empty only while the ad is reserved: an ad *)
(* whose isReserved is false has an empty waitingListUserIds.              *)
C36_WaitingListOnlyWhileReserved ==
  \A a \in DOMAIN ads : ~ads[a].isReserved => ads[a].waitingListUserIds = <<>>

(* An ad is open again and its waiting list is empty after a user had      *)
(* joined the list, was promoted and was declined in turn.                 *)
C36_Witness ==
  \E a \in DOMAIN ads :
    /\ ~ads[a].isReserved
    /\ ads[a].waitingListUserIds = <<>>
    /\ \E n \in DOMAIN notifications : notifications[n].type = "WAITING_LIST_JOINED"
    /\ \E n \in DOMAIN notifications :
         notifications[n].type = "PROMOTED_FROM_WAITING_LIST"
    /\ \A r \in DOMAIN reservations : reservations[r].status = "DECLINED"
    /\ Len(reservations) >= 2

----------------------------------------------------------------------------
TerminalStatuses == {"DECLINED", "COMPLETED"}

(* C37: DECLINED and COMPLETED are terminal for a reservation: no later    *)
(* step changes the status of a reservation that is DECLINED or COMPLETED, *)
(* and an updateReservationStatus on that reservation, or a                *)
(* completeExchangeAndCloseChat on the session linked to it, changes no ad.*)
C37_TerminalForReservation ==
  [][\A r \in DOMAIN reservations :
       reservations[r].status \in TerminalStatuses =>
         /\ reservations'[r].status = reservations[r].status
         /\ SvcStep("updateReservationStatus") /\ procs'[ApiClient].reservationId = r =>
              ads' = ads
         /\ /\ SvcStep("completeExchangeAndCloseChat")
            /\ chatSessions[procs'[ApiClient].found].reservationId = r
            => ads' = ads
    ]_vars

----------------------------------------------------------------------------
(* C38: completeExchangeAndCloseChat succeeds only when the ad of the      *)
(* session has reservationStatus ACCEPTED and its reservedByUserId is the  *)
(* participant of the session who is not the owner; on an ad that is open, *)
(* PENDING or COMPLETED the call fails and leaves the ad as it was.        *)
C38_CompleteOnlyWhenAccepted ==
  [][SvcStep("completeExchangeAndCloseChat") =>
       LET chatData == chatSessions[procs'[ApiClient].found]
           adData == ads[chatData.adId]
           succeeds == procs'[ApiClient].result = "ok"
       IN /\ succeeds =>
               /\ adData.reservationStatus = "ACCEPTED"
               /\ adData.reservedByUserId # adData.userId
               /\ includes(chatData.participantIds, adData.reservedByUserId)
          /\ adData.reservationStatus # "ACCEPTED" => ~succeeds /\ ads' = ads
    ]_vars

----------------------------------------------------------------------------
(* C39: a notification is marked read only by an operation acting for its  *)
(* recipient: every step in which the isRead of a notification goes from   *)
(* false to true is a markNotificationAsRead, or an                        *)
(* updateReservationStatus given that notification as                      *)
(* originalNotificationId, whose acting user is the notification's userId. *)
C39_ReadOnlyByRecipient ==
  [][\A n \in DOMAIN notifications :
       ~notifications[n].isRead /\ notifications'[n].isRead =>
         /\ \/ SvcStep("markNotificationAsRead")
            \/ SvcStep("updateReservationStatus")
         /\ procs'[ApiClient].notificationId = n
         /\ procs'[ApiClient].userId = notifications[n].userId
    ]_vars

----------------------------------------------------------------------------
(* C40: a createReservation, joinWaitingList or claimStreetFind that      *)
(* succeeds returns an Ad, the committed document of its ad: after         *)
(* claimStreetFind that ad is COMPLETED with the picker as                 *)
(* reservedByUserId.  Null is returned only when the ad does not exist.    *)
C40_ReturnsCommittedAd ==
  [][\A op \in ReturnsAd :
       SvcStep(op) /\ procs'[ApiClient].result = "ok" =>
         /\ procs'[ApiClient].adId \in DOMAIN ads' =>
              procs'[ApiClient].listed = {procs'[ApiClient].adId}
         /\ op = "claimStreetFind" =>
              /\ ads'[procs'[ApiClient].adId].reservationStatus = "COMPLETED"
              /\ ads'[procs'[ApiClient].adId].reservedByUserId = procs'[ApiClient].userId
    ]_vars

====
